---- MODULE Spec2Model ----
(***************************************************************************)
(* Upgrade-safety engine of decipher-solidity-upgradoor.                   *)
(*                                                                         *)
(* The module models the process wrapper (check.ts main), the orchestrator *)
(* (UpgradoorEngine.analyze), the proxy classifier (detectProxy), the      *)
(* transparent-proxy checker, the verdict aggregator (aggregateResults),   *)
(* the report renderer (generateMarkdownReport) and the exit-code mapping  *)
(* (getExitCode).                                                          *)
(*                                                                         *)
(* Specifications:                                                         *)
(*   Spec      one process run: main -> analyze -> exit                    *)
(*   SpecAgg   aggregateResults called directly on outcome records         *)
(*   SpecAll   the union of the two (engine results and direct calls)      *)
(*   SpecTwin  two runs of the process against the same environment        *)
(***************************************************************************)
EXTENDS Integers, Sequences, FiniteSets, TLC

(***************************************************************************)
(* Bounds of the model.                                                    *)
(***************************************************************************)
\* longest bytecode (in hex chunks) an RPC read returns
MaxCodeLen == 2
\* most findings in one aggregateResults input of SpecAgg
MaxFindings == 2
\* most analyzers that are not completed in one aggregateResults input of SpecAgg
MaxNotCompleted == 1
\* wall-clock readings are drawn from 0..MaxClock
MaxClock == 1

(***************************************************************************)
(* types.ts                                                                *)
(***************************************************************************)
Severity == {"CRITICAL", "HIGH", "MEDIUM", "LOW"}

Verdict == {"SAFE", "UNSAFE", "REVIEW_REQUIRED", "INCOMPLETE"}

Status == {"completed", "skipped", "errored"}

\* highestSeverity: Severity | null
NoSeverity == "null"

\* A finding is its code and severity; title, description and remediation are
\* fixed by the code.
Finding(code, severity) == [code |-> code, severity |-> severity]

\* AnalyzerResult, a tagged union on status; the fields a variant lacks are empty.
Completed(findings) ==
  [status |-> "completed", findings |-> findings, reason |-> "", error |-> ""]

Skipped(reason) ==
  [status |-> "skipped", findings |-> <<>>, reason |-> reason, error |-> ""]

Errored(error) ==
  [status |-> "errored", findings |-> <<>>, reason |-> "", error |-> error]

(***************************************************************************)
(* Record<string, T>: a JavaScript object keeps its string keys in         *)
(* insertion order, and Object.entries walks them in that order.  It is a  *)
(* sequence of [name, value] entries.                                      *)
(***************************************************************************)
Keys(obj) == {obj[i].name : i \in 1..Len(obj)}

HasKey(obj, name) == \E i \in 1..Len(obj) : obj[i].name = name

IndexOf(obj, name) == CHOOSE i \in 1..Len(obj) : obj[i].name = name

Get(obj, name) == obj[IndexOf(obj, name)].value

\* obj[name] = value: an existing key keeps its place, a new key goes last
Put(obj, name, value) ==
  IF HasKey(obj, name)
    THEN [obj EXCEPT ![IndexOf(obj, name)] = [name |-> name, value |-> value]]
    ELSE Append(obj, [name |-> name, value |-> value])

(***************************************************************************)
(* report/aggregator.ts                                                    *)
(***************************************************************************)
SEVERITY_ORDER ==
  [s \in Severity |->
    CASE s = "CRITICAL" -> 4 [] s = "HIGH" -> 3 [] s = "MEDIUM" -> 2 [] s = "LOW" -> 1]

CRITICAL_CAPABLE_ANALYZERS ==
  << "proxy-detection", "storage-layout", "abi-diff", "uups-safety",
     "transparent-safety", "initializer-integrity", "access-control-regression" >>

\* the findings of the analyzers put in front of those collected before
CollectFindingsNewestFirst(analyzerResults) ==
  LET collected[i \in 0..Len(analyzerResults)] ==
        IF i = 0 THEN <<>>
        ELSE (IF analyzerResults[i].value.status = "completed"
                THEN analyzerResults[i].value.findings ELSE <<>>)
             \o collected[i - 1]
  IN collected[Len(analyzerResults)]

\* the loop of aggregator.ts:35-40, findings part
RECURSIVE CollectFindings(_)
CollectFindings(analyzerResults) ==
  IF analyzerResults = <<>> THEN <<>>
  ELSE LET e == Head(analyzerResults)
       IN (IF e.value.status = "completed" THEN e.value.findings ELSE <<>>)
          \o CollectFindings(Tail(analyzerResults))

\* the loop of aggregator.ts:35-40, analyzerStatus part
CollectStatus(analyzerResults) ==
  [i \in 1..Len(analyzerResults) |->
    [name |-> analyzerResults[i].name, value |-> analyzerResults[i].value.status]]

\* analyzerStatus[name] === "errored" (undefined for a missing key)
IsErrored(analyzerStatus, name) ==
  HasKey(analyzerStatus, name) /\ Get(analyzerStatus, name) = "errored"

\* the check with the list of an earlier revision, which names the last analyzer
\* "access-control"
ErroredAmongEarlierNames(analyzerStatus) ==
  \E name \in {"proxy-detection", "storage-layout", "abi-diff", "uups-safety",
               "transparent-safety", "initializer-integrity", "access-control"} :
    HasKey(analyzerStatus, name) /\ Get(analyzerStatus, name) = "errored"

CriticalCapableErrored(analyzerStatus) ==
  \E i \in 1..Len(CRITICAL_CAPABLE_ANALYZERS) :
    IsErrored(analyzerStatus, CRITICAL_CAPABLE_ANALYZERS[i])

\* the loop turn without the comparison: the last finding wins
HighestStepLastWins(highestSeverity, finding) == finding.severity

\* one turn of the loop of aggregator.ts:53-60
HighestStep(highestSeverity, finding) ==
  IF highestSeverity = NoSeverity
     \/ SEVERITY_ORDER[finding.severity] > SEVERITY_ORDER[highestSeverity]
    THEN finding.severity
    ELSE highestSeverity

RECURSIVE HighestFrom(_, _)
HighestFrom(highestSeverity, findings) ==
  IF findings = <<>> THEN highestSeverity
  ELSE HighestFrom(HighestStep(highestSeverity, Head(findings)), Tail(findings))

HighestSeverity(findings) == HighestFrom(NoSeverity, findings)

SomeSeverity(findings, s) == \E i \in 1..Len(findings) : findings[i].severity = s

\* the verdict ladder without its first rung
ComputeVerdictFromHigh(findings) ==
  IF SomeSeverity(findings, "HIGH") THEN "UNSAFE"
  ELSE IF SomeSeverity(findings, "MEDIUM") THEN "REVIEW_REQUIRED"
  ELSE "SAFE"

ComputeVerdict(findings) ==
  IF SomeSeverity(findings, "CRITICAL") THEN "UNSAFE"
  ELSE IF SomeSeverity(findings, "HIGH") THEN "UNSAFE"
  ELSE IF SomeSeverity(findings, "MEDIUM") THEN "REVIEW_REQUIRED"
  ELSE "SAFE"

\* the aggregator without the check of lines 43-49
aggregateResultsUnchecked(analyzerResults) ==
  [verdict |-> ComputeVerdict(CollectFindings(analyzerResults)),
   highestSeverity |-> HighestSeverity(CollectFindings(analyzerResults)),
   findings |-> CollectFindings(analyzerResults),
   analyzerStatus |-> CollectStatus(analyzerResults)]

aggregateResults(analyzerResults) ==
  LET findings == CollectFindings(analyzerResults)
      analyzerStatus == CollectStatus(analyzerResults)
  IN IF CriticalCapableErrored(analyzerStatus)
       THEN [verdict |-> "INCOMPLETE", highestSeverity |-> NoSeverity,
             findings |-> findings, analyzerStatus |-> analyzerStatus]
       ELSE [verdict |-> ComputeVerdict(findings),
             highestSeverity |-> HighestSeverity(findings),
             findings |-> findings, analyzerStatus |-> analyzerStatus]

(***************************************************************************)
(* check.ts                                                                *)
(***************************************************************************)
EXIT_CODES ==
  [v \in Verdict |->
    CASE v = "SAFE" -> 0 [] v = "UNSAFE" -> 1
      [] v = "REVIEW_REQUIRED" -> 3 [] v = "INCOMPLETE" -> 4]

\* the mapping without the refinement of UNSAFE by severity
getExitCodeUnrefined(verdict, highestSeverity) == EXIT_CODES[verdict]

getExitCode(verdict, highestSeverity) ==
  IF verdict = "UNSAFE" /\ highestSeverity = "CRITICAL" THEN 1
  ELSE IF verdict = "UNSAFE" /\ highestSeverity = "HIGH" THEN 2
  ELSE EXIT_CODES[verdict]

(***************************************************************************)
(* utils/eip1967.ts                                                        *)
(*                                                                         *)
(* A hex string is a sequence of chunks, "0x" first.  A 32-byte slot value *)
(* is its upper 12 bytes (hi) and its lower 20 bytes (lo).                 *)
(***************************************************************************)
ADMIN_SLOT == << "0x", "b531" >>

PROXIABLE_UUID_SELECTOR == << "0x", "52d1", "902d" >>

\* the chunks bytecode is made of here
CodeChunks == {"52d1", "902d", "b531", "00"}

\* slotValue.slice(-40): the last 20 bytes
slotToAddress(slotValue) == slotValue.lo

\* String.prototype.slice(2): the two characters dropped are the chunk "0x"
Slice2(hex) == SubSeq(hex, 2, Len(hex))

\* String.prototype.includes
Includes(hex, pattern) ==
  \E i \in 0..(Len(hex) - Len(pattern)) :
    SubSeq(hex, i + 1, i + Len(pattern)) = pattern

(***************************************************************************)
(* analyzers/proxy-detection.ts (detectProxy)                              *)
(***************************************************************************)
ZERO_ADDRESS == 0

\* the literal of detectProxy that repeats ADMIN_SLOT without its 0x
adminSlotHash == << "b531" >>

NoProxyInfo ==
  [present |-> FALSE, type |-> "unknown", proxyAddress |-> ZERO_ADDRESS,
   implementationAddress |-> ZERO_ADDRESS, hasAdmin |-> FALSE,
   adminAddress |-> ZERO_ADDRESS]

\* return { result: { status: "completed", findings } } after one push
BlockingReturn(code) ==
  [proxyInfo |-> NoProxyInfo,
   result |-> Completed(<< Finding(code, "CRITICAL") >>)]

\* !implCode || implCode === "0x"
CodeIsEmpty(code) == ~code.defined \/ code.hex = << "0x" >>

\* implCode.includes(PROXIABLE_UUID_SELECTOR.slice(2))
IsUUPS(implCode) == Includes(implCode.hex, Slice2(PROXIABLE_UUID_SELECTOR))

\* proxyCode && proxyCode.includes(adminSlotHash)
ReferencesAdminSlot(proxyCode) ==
  proxyCode.defined /\ proxyCode.hex # <<>> /\ Includes(proxyCode.hex, adminSlotHash)

\* the tail of detectProxy (lines 301-326) for a decided proxyType
TypedReturn(proxyType, proxyAddress, implAddress, adminAddress) ==
  IF proxyType = "unknown"
    THEN BlockingReturn("PROXY-005")
    ELSE [proxyInfo |->
            [present |-> TRUE, type |-> proxyType, proxyAddress |-> proxyAddress,
             implementationAddress |-> implAddress,
             hasAdmin |-> (proxyType = "transparent"),
             adminAddress |-> IF proxyType = "transparent" THEN adminAddress
                              ELSE ZERO_ADDRESS],
          result |-> Completed(<<>>)]

(***************************************************************************)
(* analyzers/transparent-safety.ts                                         *)
(***************************************************************************)
ADMIN_SELECTORS ==
  {"0x3659cfe6", "0x4f1ef286", "0x8f283970", "0xf851a440", "0x5c60da1b"}

\* the test without the comparison with the zero address
AdminMissing(proxyInfo) == ~proxyInfo.hasAdmin

\* !adminAddress || adminAddress === "0x000...0"
AdminMissingOrZero(proxyInfo) ==
  ~proxyInfo.hasAdmin \/ proxyInfo.adminAddress = ZERO_ADDRESS

HasUpgradeFunctions(newAbi) ==
  \E i \in 1..Len(newAbi) : newAbi[i].name \in {"upgradeTo", "upgradeToAndCall"}

RECURSIVE SelectorCollisions(_)
SelectorCollisions(functions) ==
  IF functions = <<>> THEN <<>>
  ELSE (IF Head(functions).selector \in ADMIN_SELECTORS
          THEN << Finding("TPROXY-004", "HIGH") >> ELSE <<>>)
       \o SelectorCollisions(Tail(functions))

analyzeTransparentSafety(proxyInfo, newAbi) ==
  Completed(
    (IF AdminMissingOrZero(proxyInfo)
       THEN << Finding("TPROXY-001", "CRITICAL") >> ELSE <<>>)
    \o (IF HasUpgradeFunctions(newAbi)
          THEN << Finding("TPROXY-002", "HIGH") >> ELSE <<>>)
    \o SelectorCollisions(newAbi))

(***************************************************************************)
(* report/markdown-report.ts                                               *)
(*                                                                         *)
(* The report is the text of its lines; each field below is one line or    *)
(* one block of lines of the text.                                         *)
(***************************************************************************)
VERDICT_HEADER ==
  [v \in Verdict |->
    CASE v = "SAFE" -> "# SAFE - Upgrade Appears Safe"
      [] v = "UNSAFE" -> "# UNSAFE - Do Not Upgrade"
      [] v = "REVIEW_REQUIRED" -> "# REVIEW REQUIRED - Manual Review Needed"
      [] v = "INCOMPLETE" -> "# INCOMPLETE - Analysis Could Not Complete"]

CountSeverity(findings, s) ==
  Cardinality({i \in 1..Len(findings) : findings[i].severity = s})

generateMarkdownReport(aggregated, proxyInfo, metadata) ==
  [header |-> VERDICT_HEADER[aggregated.verdict],
   analyzed |-> metadata.timestamp,
   proxy |-> metadata.proxyAddress,
   proxyType |-> IF ~proxyInfo.present THEN ""
                 ELSE IF proxyInfo.type = "uups" THEN "UUPS" ELSE "Transparent",
   implementation |-> proxyInfo.implementationAddress,
   showAdmin |-> proxyInfo.present /\ proxyInfo.hasAdmin,
   admin |-> proxyInfo.adminAddress,
   oldImplementation |-> metadata.oldImplementationPath,
   newImplementation |-> metadata.newImplementationPath,
   counts |-> [s \in Severity |-> CountSeverity(aggregated.findings, s)],
   statusRows |-> aggregated.analyzerStatus,
   criticalAndHigh |->
     SelectSeq(aggregated.findings, LAMBDA f : f.severity \in {"CRITICAL", "HIGH"}),
   mediumAndLow |->
     SelectSeq(aggregated.findings, LAMBDA f : f.severity \in {"MEDIUM", "LOW"}),
   noFindings |-> Len(aggregated.findings) = 0]

(***************************************************************************)
(* State                                                                   *)
(***************************************************************************)
VARIABLES
  pc,               \* where the process is
  argv,             \* the flags given on the command line
  frame,            \* detectProxy's locals
  detected,         \* detectProxy's return value
  analyzerResults,  \* analyze's analyzerResults
  resolved,         \* analyze's resolved
  settled,          \* the promises handed to Promise.allSettled, in array order
  result,           \* the EngineResult analyze returned
  caught,           \* the error thrown to main's catch
  exitCode,         \* the code of process.exit, -1 while the process runs
  run,              \* 0: a single run; 1, 2: first and second run against one environment
  memo,             \* the environment's answers of the first run, replayed by the second
  prev,             \* what the first run ended with
  aggIn,            \* SpecAgg: the argument of a direct aggregateResults call
  aggOut,           \* SpecAgg: what the call returned
  call,             \* the arguments of a direct call of one analyzer
  ret               \* the AnalyzerResult that call returned

vars ==
  << pc, argv, frame, detected, analyzerResults, resolved, settled, result, caught,
     exitCode, run, memo, prev, aggIn, aggOut, call, ret >>

Flags == {"--proxy", "--old", "--new", "--rpc"}

ZeroSlot == [hi |-> 0, lo |-> ZERO_ADDRESS]

NoCode == [defined |-> FALSE, hex |-> <<>>]

EmptyFrame ==
  [implSlot |-> ZeroSlot, adminSlot |-> ZeroSlot, beaconSlot |-> ZeroSlot,
   implCode |-> NoCode, proxyCode |-> NoCode]

NoDetection == [proxyInfo |-> NoProxyInfo, result |-> Skipped("")]

NoResolved == [ok |-> FALSE, newAbi |-> <<>>]

NoAggregated ==
  [verdict |-> "INCOMPLETE", highestSeverity |-> NoSeverity, findings |-> <<>>,
   analyzerStatus |-> <<>>]

NoMetadata ==
  [proxyAddress |-> ZERO_ADDRESS, newImplementationPath |-> "",
   oldImplementationPath |-> "", timestamp |-> 0]

NoResult ==
  [present |-> FALSE, verdict |-> "INCOMPLETE", highestSeverity |-> NoSeverity,
   findings |-> <<>>,
   markdown |-> generateMarkdownReport(NoAggregated, NoProxyInfo, NoMetadata),
   analyzerStatus |-> <<>>]

NoError == [kind |-> "none", code |-> ""]

\* no analyzer has been called directly
NoCall == <<>>

NoReturn == Skipped("")

\* new UpgradoorError(code, ...)
UpgradoorError(code) == [kind |-> "UpgradoorError", code |-> code]

\* any other thrown value: a TypeError, a SyntaxError, a viem error
PlainError(what) == [kind |-> "Error", code |-> what]

\* the EngineInput main builds from the command line
input ==
  [proxyAddress |-> 1, oldImplementationPath |-> "V1.sol",
   newImplementationPath |-> "V2.sol", rpcUrl |-> "rpc"]

(***************************************************************************)
(* The environment: what the chain, the file system, the toolchain and the *)
(* build artifacts can answer.  A single run (run = 0) draws from the full *)
(* sets; the two runs of SpecTwin draw from a few representatives, and the *)
(* second run is given the answers of the first.                           *)
(***************************************************************************)
SeqsUpTo(S, n) == UNION {[1..k -> S] : k \in 0..n}

SlotValues ==
  IF run = 0 THEN [hi : 0..1, lo : {ZERO_ADDRESS, 2}]
  ELSE {ZeroSlot, [hi |-> 0, lo |-> 2]}

Bytecode(chunks) == [defined |-> TRUE, hex |-> << "0x" >> \o chunks]

Bytecodes ==
  IF run = 0
    THEN {NoCode} \cup {Bytecode(c) : c \in SeqsUpTo(CodeChunks, MaxCodeLen)}
    ELSE {Bytecode(<< "52d1", "902d" >>), Bytecode(<< "b531" >>), Bytecode(<< "00" >>)}

ProbeAnswers == IF run = 0 THEN BOOLEAN ELSE {TRUE}

\* the new implementation's ABI, as extractAbi returns it
NewAbis ==
  IF run = 0
    THEN { <<>>,
           << [name |-> "upgradeTo", selector |-> "0x3659cfe6"] >>,
           << [name |-> "setAdmin", selector |-> "0x8f283970"] >> }
    ELSE { <<>> }

\* what resolveImplementations meets: the two paths on disk, forge build,
\* forge inspect (malformed: JSON of another shape than ForgeStorageLayout)
ResolveEnvs ==
  IF run = 0
    THEN [old : {"ok", "missing", "badext"}, new : {"ok", "missing", "badext"},
          build : {"ok", "fails"}, inspect : {"ok", "fails", "malformed"},
          newAbi : NewAbis]
    ELSE [old : {"ok"}, new : {"ok"}, build : {"ok"}, inspect : {"ok"},
          newAbi : NewAbis]

\* a call either returns an AnalyzerResult or throws
Returns(value) == [throws |-> FALSE, value |-> value]

Throws == [throws |-> TRUE, value |-> Errored("thrown")]

\* analyzeStorageLayout: completed with STOR-* findings; it throws a TypeError
\* in isGapEntry on an entry whose label ends in "gap" and whose canonicalType
\* is undefined (a forge type entry without label)
StorageOutcomes ==
  IF run = 0
    THEN { Throws,
           Returns(Completed(<<>>)),
           Returns(Completed(<< Finding("STOR-001", "CRITICAL") >>)),
           Returns(Completed(<< Finding("STOR-009", "MEDIUM") >>)),
           Returns(Completed(<< Finding("STOR-010", "LOW") >>)),
           Returns(Completed(<< Finding("STOR-010", "LOW"),
                                Finding("STOR-009", "MEDIUM") >>)),
           Returns(Completed(<< Finding("STOR-002", "CRITICAL"),
                                Finding("STOR-009", "MEDIUM") >>)) }
    ELSE { Returns(Completed(<<>>)),
           Returns(Completed(<< Finding("STOR-009", "MEDIUM") >>)) }

\* analyzeAbiDiff: completed with ABI-* findings; nothing in it throws on what
\* extractAbi returns
AbiOutcomes ==
  IF run = 0
    THEN { Returns(Completed(<<>>)),
           Returns(Completed(<< Finding("ABI-001", "HIGH") >>)),
           Returns(Completed(<< Finding("ABI-005", "LOW") >>)) }
    ELSE { Returns(Completed(<<>>)) }

\* analyzeUupsSafety: errored when the artifact is missing, rejected when
\* JSON.parse throws, else completed with at most one UUPS-* finding
UupsOutcomes ==
  IF run = 0
    THEN { Throws,
           Returns(Errored("Build artifact not found")),
           Returns(Completed(<<>>)),
           Returns(Completed(<< Finding("UUPS-003", "CRITICAL") >>)) }
    ELSE { Returns(Completed(<<>>)),
           Returns(Completed(<< Finding("UUPS-003", "CRITICAL") >>)) }

\* analyzeInitializerIntegrity: as analyzeUupsSafety, with INIT-* findings
InitOutcomes ==
  IF run = 0
    THEN { Throws,
           Returns(Errored("Build artifact not found")),
           Returns(Completed(<<>>)),
           Returns(Completed(<< Finding("INIT-002", "HIGH") >>)),
           Returns(Completed(<< Finding("INIT-005", "MEDIUM") >>)) }
    ELSE { Returns(Completed(<<>>)),
           Returns(Completed(<< Finding("INIT-005", "MEDIUM") >>)) }

\* analyzeAccessControlRegression: rejected when JSON.parse throws, else
\* completed with ACL-* findings (a missing artifact is an empty function list)
AclOutcomes ==
  IF run = 0
    THEN { Throws,
           Returns(Completed(<<>>)),
           Returns(Completed(<< Finding("ACL-001", "CRITICAL") >>)) }
    ELSE { Returns(Completed(<<>>)) }

Clock == 0..MaxClock

MemoInit ==
  [probe |-> TRUE, implSlot |-> ZeroSlot, adminSlot |-> ZeroSlot,
   beaconSlot |-> ZeroSlot, implCode |-> NoCode, proxyCode |-> NoCode,
   resolve |-> [old |-> "ok", new |-> "ok", build |-> "ok", inspect |-> "ok",
                newAbi |-> <<>>],
   storage |-> Throws, abi |-> Throws, pattern |-> Throws, init |-> Throws,
   acl |-> Throws]

\* the second run is answered as the first was
Replays(key, v) == run = 2 => memo[key] = v

Recorded(key, v) == IF run = 1 THEN [memo EXCEPT ![key] = v] ELSE memo

(***************************************************************************)
(* detectProxy, between its awaits                                         *)
(***************************************************************************)
\* lines 220-254: after the three slot reads
SlotsDecision(beaconAddress, implAddress) ==
  IF beaconAddress # ZERO_ADDRESS THEN "PROXY-001"
  ELSE IF implAddress = ZERO_ADDRESS THEN "PROXY-002"
  ELSE "readImplCode"

\* the type decision with the admin test ahead of the selector test
CodeDecisionAdminFirst(implCode, adminAddress) ==
  IF CodeIsEmpty(implCode) THEN "PROXY-003"
  ELSE IF adminAddress # ZERO_ADDRESS THEN "transparent"
  ELSE IF IsUUPS(implCode) THEN "uups"
  ELSE "readProxyCode"

\* lines 258-291: after getBytecode(implAddress)
CodeDecision(implCode, adminAddress) ==
  IF CodeIsEmpty(implCode) THEN "PROXY-003"
  ELSE IF IsUUPS(implCode) THEN "uups"
  ELSE IF adminAddress # ZERO_ADDRESS THEN "transparent"
  ELSE "readProxyCode"

\* lines 291-298: after getBytecode(proxyAddress)
FallbackDecision(proxyCode) ==
  IF ReferencesAdminSlot(proxyCode) THEN "transparent" ELSE "unknown"

(***************************************************************************)
(* resolver/input-resolver.ts                                              *)
(***************************************************************************)
\* validateSolFile: existence first, then the extension
validateSolFile(file) == IF file = "ok" THEN "ok" ELSE "INPUT_ERROR"

\* "ok", or the error resolveImplementations rejects with
resolveImplementations(env) ==
  IF validateSolFile(env.old) # "ok" THEN UpgradoorError("INPUT_ERROR")
  ELSE IF validateSolFile(env.new) # "ok" THEN UpgradoorError("INPUT_ERROR")
  ELSE IF env.build # "ok" THEN UpgradoorError("FOUNDRY_ERROR")
  ELSE IF env.inspect = "fails" THEN UpgradoorError("FOUNDRY_ERROR")
  ELSE IF env.inspect = "malformed" THEN PlainError("TypeError")
  ELSE NoError

(***************************************************************************)
(* engine.ts                                                               *)
(***************************************************************************)
blockingProxyCodes == {"PROXY-001", "PROXY-002", "PROXY-003", "PROXY-005"}

DownstreamAnalyzers ==
  << "storage-layout", "abi-diff", "uups-safety", "transparent-safety",
     "initializer-integrity", "access-control-regression" >>

buildMetadata(in, now) ==
  [proxyAddress |-> in.proxyAddress,
   newImplementationPath |-> in.newImplementationPath,
   oldImplementationPath |-> in.oldImplementationPath,
   timestamp |-> now]

\* lines 35-37
\* a proxy detection that never halts the run
NeverBlocked(proxyResult) == FALSE

IsBlocked(proxyResult) ==
  LET proxyFindings ==
        IF proxyResult.status = "completed" THEN proxyResult.findings ELSE <<>>
  IN \E i \in 1..Len(proxyFindings) : proxyFindings[i].code \in blockingProxyCodes

\* lines 38-47
RECURSIVE MarkSkipped(_, _)
MarkSkipped(results, names) ==
  IF names = <<>> THEN results
  ELSE MarkSkipped(Put(results, Head(names), Skipped("proxy-detection-failed")),
                   Tail(names))

\* the early return built like the final return, from the aggregator's verdict
BlockedResultAggregated(results, proxyInfo, now) ==
  LET aggregated == aggregateResults(results)
  IN [present |-> TRUE, verdict |-> aggregated.verdict,
      highestSeverity |-> aggregated.highestSeverity,
      findings |-> aggregated.findings,
      markdown |-> generateMarkdownReport(aggregated, proxyInfo,
                                          buildMetadata(input, now)),
      analyzerStatus |-> aggregated.analyzerStatus]

\* lines 48-61
BlockedResult(results, proxyInfo, now) ==
  LET aggregated == aggregateResults(results)
  IN [present |-> TRUE, verdict |-> "INCOMPLETE", highestSeverity |-> NoSeverity,
      findings |-> aggregated.findings,
      markdown |-> generateMarkdownReport(aggregated, proxyInfo,
                                          buildMetadata(input, now)),
      analyzerStatus |-> aggregated.analyzerStatus]

\* the catch of lines 68-74
ResolveError(err) ==
  IF err.kind = "UpgradoorError" THEN err ELSE UpgradoorError("RUNTIME_ERROR")

Fulfilled(value) == [status |-> "fulfilled", value |-> value, reason |-> ""]

Rejected(reason) == [status |-> "rejected", value |-> Errored(reason), reason |-> reason]

\* the promise an async analyzer's call evaluates to
PromiseOf(outcome) ==
  IF outcome.throws THEN Rejected("thrown") ELSE Fulfilled(outcome.value)

settledToResult(p) ==
  IF p.status = "fulfilled" THEN p.value ELSE Errored(p.reason)

proxyPatternKey(proxyType) ==
  IF proxyType = "uups" THEN "uups-safety" ELSE "transparent-safety"

otherProxyKey(proxyType) ==
  IF proxyType = "uups" THEN "transparent-safety" ELSE "uups-safety"

\* the reason naming the kind of the analyzer skipped, not the kind detected
OtherReasonOwnKind(proxyInfo) ==
  IF ~proxyInfo.present THEN "proxy-type-is-unknown"
  ELSE IF proxyInfo.type = "uups" THEN "proxy-type-is-transparent"
  ELSE "proxy-type-is-uups"

\* `proxy-type-is-${proxyType ?? "unknown"}`
OtherReason(proxyInfo) ==
  IF ~proxyInfo.present THEN "proxy-type-is-unknown"
  ELSE IF proxyInfo.type = "uups" THEN "proxy-type-is-uups"
  ELSE IF proxyInfo.type = "transparent" THEN "proxy-type-is-transparent"
  ELSE "proxy-type-is-unknown"

\* the last two outcomes recorded under each other's key
CollectResultsCrossed(results, proxyInfo, s) ==
  LET r1 == Put(results, "storage-layout", settledToResult(s[1]))
      r2 == Put(r1, "abi-diff", settledToResult(s[2]))
      r3 == Put(r2, proxyPatternKey(proxyInfo.type), settledToResult(s[3]))
      r4 == Put(r3, otherProxyKey(proxyInfo.type), Skipped(OtherReason(proxyInfo)))
      r5 == Put(r4, "initializer-integrity", settledToResult(s[5]))
  IN Put(r5, "access-control-regression", settledToResult(s[4]))

\* lines 109-126
CollectResults(results, proxyInfo, s) ==
  LET r1 == Put(results, "storage-layout", settledToResult(s[1]))
      r2 == Put(r1, "abi-diff", settledToResult(s[2]))
      r3 == Put(r2, proxyPatternKey(proxyInfo.type), settledToResult(s[3]))
      r4 == Put(r3, otherProxyKey(proxyInfo.type), Skipped(OtherReason(proxyInfo)))
      r5 == Put(r4, "initializer-integrity", settledToResult(s[4]))
  IN Put(r5, "access-control-regression", settledToResult(s[5]))

\* lines 129-142
FinalResult(results, proxyInfo, now) ==
  LET aggregated == aggregateResults(results)
  IN [present |-> TRUE, verdict |-> aggregated.verdict,
      highestSeverity |-> aggregated.highestSeverity,
      findings |-> aggregated.findings,
      markdown |-> generateMarkdownReport(aggregated, proxyInfo,
                                          buildMetadata(input, now)),
      analyzerStatus |-> aggregated.analyzerStatus]

\* main's catch: 10 for an UpgradoorError, 12 for anything else
CatchExitCode(err) == IF err.kind = "UpgradoorError" THEN 10 ELSE 12

(***************************************************************************)
(* One process run: check.ts main around UpgradoorEngine.analyze           *)
(***************************************************************************)
NoPrev == [result |-> NoResult, exitCode |-> -1]

\* the command lines: all four flags, or one of them missing
Argvs == {Flags} \cup {Flags \ {f} : f \in Flags}

InitRun(r) ==
  /\ pc = "main"
  /\ frame = EmptyFrame
  /\ detected = NoDetection
  /\ analyzerResults = <<>>
  /\ resolved = NoResolved
  /\ settled = <<>>
  /\ result = NoResult
  /\ caught = NoError
  /\ exitCode = -1
  /\ run = r
  /\ memo = MemoInit
  /\ prev = NoPrev
  /\ aggIn = <<>>
  /\ aggOut = NoAggregated
  /\ call = NoCall
  /\ ret = NoReturn

Init ==
  /\ argv \in Argvs
  /\ InitRun(0)

\* check.ts:22-41
Main ==
  /\ pc = "main"
  /\ IF argv # Flags
       THEN pc' = "exited" /\ exitCode' = 10
       ELSE pc' = "probe" /\ exitCode' = exitCode
  /\ UNCHANGED << argv, frame, detected, analyzerResults, resolved, settled, result,
                  caught, run, memo, prev, aggIn, aggOut, call, ret >>

\* validateFoundry: forge --version
Probe ==
  /\ pc = "probe"
  /\ \E ok \in ProbeAnswers :
       /\ Replays("probe", ok)
       /\ memo' = Recorded("probe", ok)
       /\ IF ok
            THEN pc' = "dp_impl" /\ caught' = caught
            ELSE pc' = "threw" /\ caught' = UpgradoorError("FOUNDRY_NOT_FOUND")
  /\ UNCHANGED << argv, frame, detected, analyzerResults, resolved, settled, result,
                  exitCode, run, prev, aggIn, aggOut, call, ret >>

\* detectProxy: await readStorageSlot(client, proxyAddress, IMPLEMENTATION_SLOT)
ReadImplSlot ==
  /\ pc = "dp_impl"
  /\ \E v \in SlotValues :
       /\ Replays("implSlot", v)
       /\ memo' = Recorded("implSlot", v)
       /\ frame' = [frame EXCEPT !.implSlot = v]
  /\ pc' = "dp_admin"
  /\ UNCHANGED << argv, detected, analyzerResults, resolved, settled, result, caught,
                  exitCode, run, prev, aggIn, aggOut, call, ret >>

\* detectProxy: await readStorageSlot(client, proxyAddress, ADMIN_SLOT)
ReadAdminSlot ==
  /\ pc = "dp_admin"
  /\ \E v \in SlotValues :
       /\ Replays("adminSlot", v)
       /\ memo' = Recorded("adminSlot", v)
       /\ frame' = [frame EXCEPT !.adminSlot = v]
  /\ pc' = "dp_beacon"
  /\ UNCHANGED << argv, detected, analyzerResults, resolved, settled, result, caught,
                  exitCode, run, prev, aggIn, aggOut, call, ret >>

\* detectProxy: the beacon slot read and the two checks that follow it
ReadBeaconSlot ==
  /\ pc = "dp_beacon"
  /\ \E v \in SlotValues :
       /\ Replays("beaconSlot", v)
       /\ memo' = Recorded("beaconSlot", v)
       /\ frame' = [frame EXCEPT !.beaconSlot = v]
       /\ LET d == SlotsDecision(slotToAddress(v), slotToAddress(frame.implSlot))
          IN IF d = "readImplCode"
               THEN pc' = "dp_implcode" /\ detected' = detected
               ELSE pc' = "dp_ret" /\ detected' = BlockingReturn(d)
  /\ UNCHANGED << argv, analyzerResults, resolved, settled, result, caught, exitCode,
                  run, prev, aggIn, aggOut, call, ret >>

\* detectProxy: await client.getBytecode({ address: implAddress }) and what follows
ReadImplCode ==
  /\ pc = "dp_implcode"
  /\ \E code \in Bytecodes :
       /\ Replays("implCode", code)
       /\ memo' = Recorded("implCode", code)
       /\ frame' = [frame EXCEPT !.implCode = code]
       /\ LET d == CodeDecision(code, slotToAddress(frame.adminSlot))
          IN IF d = "readProxyCode"
               THEN pc' = "dp_proxycode" /\ detected' = detected
               ELSE /\ pc' = "dp_ret"
                    /\ detected' =
                         IF d = "PROXY-003" THEN BlockingReturn(d)
                         ELSE TypedReturn(d, input.proxyAddress,
                                          slotToAddress(frame.implSlot),
                                          slotToAddress(frame.adminSlot))
  /\ UNCHANGED << argv, analyzerResults, resolved, settled, result, caught, exitCode,
                  run, prev, aggIn, aggOut, call, ret >>

\* detectProxy: await client.getBytecode({ address: proxyAddress }) and what follows
ReadProxyCode ==
  /\ pc = "dp_proxycode"
  /\ \E code \in Bytecodes :
       /\ Replays("proxyCode", code)
       /\ memo' = Recorded("proxyCode", code)
       /\ frame' = [frame EXCEPT !.proxyCode = code]
       /\ detected' = TypedReturn(FallbackDecision(code), input.proxyAddress,
                                  slotToAddress(frame.implSlot),
                                  slotToAddress(frame.adminSlot))
  /\ pc' = "dp_ret"
  /\ UNCHANGED << argv, analyzerResults, resolved, settled, result, caught, exitCode,
                  run, prev, aggIn, aggOut, call, ret >>

\* an RPC read rejects: detectProxy and analyze catch nothing, main does
RpcFails ==
  /\ pc \in {"dp_impl", "dp_admin", "dp_beacon", "dp_implcode", "dp_proxycode"}
  /\ run = 0
  /\ pc' = "threw"
  /\ caught' = PlainError("RpcError")
  /\ UNCHANGED << argv, frame, detected, analyzerResults, resolved, settled, result,
                  exitCode, run, memo, prev, aggIn, aggOut, call, ret >>

\* engine.ts:27-62: detectProxy returned
AfterDetect ==
  /\ pc = "dp_ret"
  /\ frame' = EmptyFrame
  /\ LET results == Put(analyzerResults, "proxy-detection", detected.result)
     IN IF IsBlocked(detected.result)
          THEN /\ analyzerResults' = MarkSkipped(results, DownstreamAnalyzers)
               /\ \E now \in Clock :
                    result' = BlockedResult(MarkSkipped(results, DownstreamAnalyzers),
                                            detected.proxyInfo, now)
               /\ pc' = "returned"
          ELSE /\ analyzerResults' = results
               /\ result' = result
               /\ pc' = "resolve"
  /\ UNCHANGED << argv, detected, resolved, settled, caught, exitCode, run, memo, prev,
                  aggIn, aggOut, call, ret >>

\* engine.ts:64-74
Resolve ==
  /\ pc = "resolve"
  /\ \E env \in ResolveEnvs :
       /\ Replays("resolve", env)
       /\ memo' = Recorded("resolve", env)
       /\ LET err == resolveImplementations(env)
          IN IF err = NoError
               THEN /\ resolved' = [ok |-> TRUE, newAbi |-> env.newAbi]
                    /\ caught' = caught
                    /\ pc' = "fan_storage"
               ELSE /\ resolved' = resolved
                    /\ caught' = ResolveError(err)
                    /\ pc' = "threw"
  /\ UNCHANGED << argv, frame, detected, analyzerResults, settled, result, exitCode,
                  run, prev, aggIn, aggOut, call, ret >>

(***************************************************************************)
(* engine.ts:79-107: the array handed to Promise.allSettled.  Its elements *)
(* are evaluated in order before allSettled is called; an async analyzer   *)
(* has run to its first await, a synchronous one has run to its end.       *)
(***************************************************************************)
\* Promise.resolve(analyzeStorageLayout(...)): the call is an argument, so a
\* throw of the call is a throw of analyze's own body
FanStorage ==
  /\ pc = "fan_storage"
  /\ \E o \in StorageOutcomes :
       /\ Replays("storage", o)
       /\ memo' = Recorded("storage", o)
       /\ IF o.throws
            THEN /\ pc' = "threw"
                 /\ caught' = PlainError("TypeError")
                 /\ settled' = settled
            ELSE /\ pc' = "fan_abi"
                 /\ caught' = caught
                 /\ settled' = Append(settled, Fulfilled(o.value))
  /\ UNCHANGED << argv, frame, detected, analyzerResults, resolved, result, exitCode,
                  run, prev, aggIn, aggOut, call, ret >>

\* Promise.resolve(analyzeAbiDiff(...))
FanAbi ==
  /\ pc = "fan_abi"
  /\ \E o \in AbiOutcomes :
       /\ Replays("abi", o)
       /\ memo' = Recorded("abi", o)
       /\ settled' = Append(settled, Fulfilled(o.value))
  /\ pc' = "fan_pattern"
  /\ UNCHANGED << argv, frame, detected, analyzerResults, resolved, result, caught,
                  exitCode, run, prev, aggIn, aggOut, call, ret >>

\* the third element: the analyzer of the detected proxy type
FanPattern ==
  /\ pc = "fan_pattern"
  /\ IF detected.proxyInfo.present /\ detected.proxyInfo.type = "uups"
       THEN \E o \in UupsOutcomes :
              /\ Replays("pattern", o)
              /\ memo' = Recorded("pattern", o)
              /\ settled' = Append(settled, PromiseOf(o))
       ELSE /\ memo' = memo
            /\ settled' =
                 Append(settled,
                        IF detected.proxyInfo.present
                           /\ detected.proxyInfo.type = "transparent"
                          THEN Fulfilled(analyzeTransparentSafety(detected.proxyInfo,
                                                                  resolved.newAbi))
                          ELSE Fulfilled(Skipped("proxy-type-unknown")))
  /\ pc' = "fan_init"
  /\ UNCHANGED << argv, frame, detected, analyzerResults, resolved, result, caught,
                  exitCode, run, prev, aggIn, aggOut, call, ret >>

\* analyzeInitializerIntegrity(...)
FanInit ==
  /\ pc = "fan_init"
  /\ \E o \in InitOutcomes :
       /\ Replays("init", o)
       /\ memo' = Recorded("init", o)
       /\ settled' = Append(settled, PromiseOf(o))
  /\ pc' = "fan_acl"
  /\ UNCHANGED << argv, frame, detected, analyzerResults, resolved, result, caught,
                  exitCode, run, prev, aggIn, aggOut, call, ret >>

\* analyzeAccessControlRegression(...)
FanAcl ==
  /\ pc = "fan_acl"
  /\ \E o \in AclOutcomes :
       /\ Replays("acl", o)
       /\ memo' = Recorded("acl", o)
       /\ settled' = Append(settled, PromiseOf(o))
  /\ pc' = "finish"
  /\ UNCHANGED << argv, frame, detected, analyzerResults, resolved, result, caught,
                  exitCode, run, prev, aggIn, aggOut, call, ret >>

\* engine.ts:78-142: await Promise.allSettled, collect, aggregate, report, return
Finish ==
  /\ pc = "finish"
  /\ analyzerResults' = CollectResults(analyzerResults, detected.proxyInfo, settled)
  /\ \E now \in Clock :
       result' = FinalResult(CollectResults(analyzerResults, detected.proxyInfo, settled),
                             detected.proxyInfo, now)
  /\ pc' = "returned"
  /\ UNCHANGED << argv, frame, detected, resolved, settled, caught, exitCode, run, memo,
                  prev, aggIn, aggOut, call, ret >>

\* check.ts:51-52
Exit ==
  /\ pc = "returned"
  /\ exitCode' = getExitCode(result.verdict, result.highestSeverity)
  /\ pc' = "exited"
  /\ UNCHANGED << argv, frame, detected, analyzerResults, resolved, settled, result,
                  caught, run, memo, prev, aggIn, aggOut, call, ret >>

\* check.ts:53-60
Catch ==
  /\ pc = "threw"
  /\ exitCode' = CatchExitCode(caught)
  /\ pc' = "exited"
  /\ UNCHANGED << argv, frame, detected, analyzerResults, resolved, settled, result,
                  caught, run, memo, prev, aggIn, aggOut, call, ret >>

Next ==
  \/ Main
  \/ Probe
  \/ ReadImplSlot
  \/ ReadAdminSlot
  \/ ReadBeaconSlot
  \/ ReadImplCode
  \/ ReadProxyCode
  \/ RpcFails
  \/ AfterDetect
  \/ Resolve
  \/ FanStorage
  \/ FanAbi
  \/ FanPattern
  \/ FanInit
  \/ FanAcl
  \/ Finish
  \/ Exit
  \/ Catch

Spec == Init /\ [][Next]_vars

(***************************************************************************)
(* aggregateResults called directly, as the unit tests of the aggregator   *)
(* call it: one outcome for each of the seven analyzers, in the order of   *)
(* CRITICAL_CAPABLE_ANALYZERS.                                             *)
(***************************************************************************)
Analyzers == 1..Len(CRITICAL_CAPABLE_ANALYZERS)

\* which analyzers completed, were skipped, errored
StatusMaps ==
  {st \in [Analyzers -> Status] :
     Cardinality({i \in Analyzers : st[i] # "completed"}) <= MaxNotCompleted}

\* the owners of a run of k findings: completed analyzers, in key order
Owners(st, k) ==
  {own \in [1..k -> Analyzers] :
     /\ \A j \in 1..k : st[own[j]] = "completed"
     /\ \A j \in 1..k : j < k => own[j] <= own[j + 1]}

Outcome(st, sevs, own, i) ==
  IF st[i] = "completed"
    THEN Completed([j \in 1..Cardinality({x \in 1..Len(sevs) : own[x] = i}) |->
                     Finding("F",
                             sevs[j + Cardinality({x \in 1..Len(sevs) : own[x] < i})])])
  ELSE IF st[i] = "skipped" THEN Skipped("not-applicable")
  ELSE Errored("failed")

AggInput(st, sevs, own) ==
  [i \in Analyzers |->
    [name |-> CRITICAL_CAPABLE_ANALYZERS[i], value |-> Outcome(st, sevs, own, i)]]

InitAgg ==
  /\ pc = "agg_call"
  /\ argv = Flags
  /\ frame = EmptyFrame
  /\ detected = NoDetection
  /\ analyzerResults = <<>>
  /\ resolved = NoResolved
  /\ settled = <<>>
  /\ result = NoResult
  /\ caught = NoError
  /\ exitCode = -1
  /\ run = 0
  /\ memo = MemoInit
  /\ prev = NoPrev
  /\ \E st \in StatusMaps :
       \E sevs \in SeqsUpTo(Severity, MaxFindings) :
         \E own \in Owners(st, Len(sevs)) :
           aggIn = AggInput(st, sevs, own)
  /\ aggOut = NoAggregated
  /\ call = NoCall
  /\ ret = NoReturn

AggregateCall ==
  /\ pc = "agg_call"
  /\ aggOut' = aggregateResults(aggIn)
  /\ pc' = "agg_done"
  /\ UNCHANGED << argv, frame, detected, analyzerResults, resolved, settled, result,
                  caught, exitCode, run, memo, prev, aggIn, call, ret >>

NextAgg == AggregateCall

SpecAgg == InitAgg /\ [][NextAgg]_vars

InitAll == Init \/ InitAgg

NextAll == Next \/ NextAgg

SpecAll == InitAll /\ [][NextAll]_vars

(***************************************************************************)
(* Two runs of the process with the same command line against the same     *)
(* environment: the second run is given every answer the first was given.  *)
(* The clock is not an answer of the environment; it is read anew.         *)
(***************************************************************************)
InitTwin ==
  /\ argv = Flags
  /\ InitRun(1)

Reinvoke ==
  /\ pc = "exited"
  /\ run = 1
  /\ run' = 2
  /\ prev' = [result |-> result, exitCode |-> exitCode]
  /\ pc' = "main"
  /\ frame' = EmptyFrame
  /\ detected' = NoDetection
  /\ analyzerResults' = <<>>
  /\ resolved' = NoResolved
  /\ settled' = <<>>
  /\ result' = NoResult
  /\ caught' = NoError
  /\ exitCode' = -1
  /\ UNCHANGED << argv, memo, aggIn, aggOut, call, ret >>

NextTwin ==
  \/ Main
  \/ Probe
  \/ ReadImplSlot
  \/ ReadAdminSlot
  \/ ReadBeaconSlot
  \/ ReadImplCode
  \/ ReadProxyCode
  \/ AfterDetect
  \/ Resolve
  \/ FanStorage
  \/ FanAbi
  \/ FanPattern
  \/ FanInit
  \/ FanAcl
  \/ Finish
  \/ Exit
  \/ Reinvoke

SpecTwin == InitTwin /\ [][NextTwin]_vars

(***************************************************************************)
(* Properties                                                              *)
(***************************************************************************)
\* the severities of the findings of the completed outcomes handed to the
\* aggregator
CompletedSeverities ==
  UNION {{aggIn[i].value.findings[j].severity : j \in 1..Len(aggIn[i].value.findings)} :
           i \in {k \in 1..Len(aggIn) : aggIn[k].value.status = "completed"}}

\* the maximum of a set of severities under Critical > High > Medium > Low
MaxSeverity(F) ==
  IF "CRITICAL" \in F THEN "CRITICAL"
  ELSE IF "HIGH" \in F THEN "HIGH"
  ELSE IF "MEDIUM" \in F THEN "MEDIUM"
  ELSE IF "LOW" \in F THEN "LOW"
  ELSE NoSeverity

SomeStatus(analyzerStatus, status) ==
  \E i \in 1..Len(analyzerStatus) : analyzerStatus[i].value = status

\* C1: aggregateResults on seven outcomes none of which is errored returns
\* Unsafe iff the findings F of the completed outcomes hold a Critical or a High,
\* ReviewRequired iff F holds a Medium and no Critical or High, Safe otherwise;
\* the highest severity is the maximum of F, absent iff F is empty; the
\* findings returned are those of the completed outcomes only.
C1_VerdictLadder ==
  (pc = "agg_done" /\ \A i \in 1..Len(aggIn) : aggIn[i].value.status # "errored") =>
    LET F == CompletedSeverities
    IN /\ (aggOut.verdict = "UNSAFE") <=> (F \cap {"CRITICAL", "HIGH"} # {})
       /\ (aggOut.verdict = "REVIEW_REQUIRED")
            <=> ("MEDIUM" \in F /\ F \cap {"CRITICAL", "HIGH"} = {})
       /\ (aggOut.verdict = "SAFE") <=> (F \subseteq {"LOW"})
       /\ aggOut.highestSeverity = MaxSeverity(F)
       /\ (aggOut.highestSeverity = NoSeverity) <=> (F = {})
       /\ {aggOut.findings[j].severity : j \in 1..Len(aggOut.findings)} = F

\* a call with a skipped analyzer whose first finding is High and whose last is Low
C1_Witness ==
  /\ pc = "agg_done"
  /\ \A i \in 1..Len(aggIn) : aggIn[i].value.status # "errored"
  /\ \E i \in 1..Len(aggIn) : aggIn[i].value.status = "skipped"
  /\ Len(aggOut.findings) = 2
  /\ aggOut.findings[1].severity = "HIGH"
  /\ aggOut.findings[2].severity = "LOW"
  /\ aggOut.verdict = "UNSAFE"

\* C2: in every EngineResult and in every output of aggregateResults over the
\* seven analyzer names, an errored status makes the verdict Incomplete and the
\* highest severity absent, whatever the completed analyzers found.
C2_ErroredIsIncomplete ==
  /\ (result.present /\ SomeStatus(result.analyzerStatus, "errored")) =>
        (result.verdict = "INCOMPLETE" /\ result.highestSeverity = NoSeverity)
  /\ (pc = "agg_done" /\ SomeStatus(aggOut.analyzerStatus, "errored")) =>
        (aggOut.verdict = "INCOMPLETE" /\ aggOut.highestSeverity = NoSeverity)

\* an EngineResult whose only errored analyzer is access-control-regression
\* and that carries a Critical finding of another analyzer
C2_Witness ==
  /\ result.present
  /\ \A i \in 1..Len(result.analyzerStatus) :
       (result.analyzerStatus[i].value = "errored")
         <=> (result.analyzerStatus[i].name = "access-control-regression")
  /\ \E j \in 1..Len(result.findings) : result.findings[j].severity = "CRITICAL"
  /\ result.verdict = "INCOMPLETE"

\* C3: when proxy detection emits PROXY-001, PROXY-002, PROXY-003 or PROXY-005,
\* the EngineResult is Incomplete with no highest severity, proxy-detection is
\* completed, the six other analyzers are skipped with reason
\* proxy-detection-failed, and the findings are the proxy-detection findings.
C3_BlockedDetection ==
  (/\ result.present
   /\ \E j \in 1..Len(detected.result.findings) :
        detected.result.findings[j].code
          \in {"PROXY-001", "PROXY-002", "PROXY-003", "PROXY-005"}) =>
    /\ result.verdict = "INCOMPLETE"
    /\ result.highestSeverity = NoSeverity
    /\ Keys(result.analyzerStatus) = Keys(analyzerResults)
    /\ Get(result.analyzerStatus, "proxy-detection") = "completed"
    /\ \A name \in {"storage-layout", "abi-diff", "uups-safety", "transparent-safety",
                    "initializer-integrity", "access-control-regression"} :
         /\ HasKey(result.analyzerStatus, name)
         /\ Get(result.analyzerStatus, name) = "skipped"
         /\ Get(analyzerResults, name) = Skipped("proxy-detection-failed")
    /\ result.findings = detected.result.findings

\* an EngineResult returned after detection found no known pattern
C3_Witness ==
  /\ result.present
  /\ Len(detected.result.findings) = 1
  /\ detected.result.findings[1].code = "PROXY-005"
  /\ pc = "exited"

\* C4: the wrapper exits with 0 iff Safe, 1 iff Unsafe with Critical, 2 iff
\* Unsafe with High, 3 iff ReviewRequired, 4 iff Incomplete; every Unsafe result
\* carries Critical or High.
C4_ExitCodes ==
  (pc = "exited" /\ result.present) =>
    /\ (exitCode = 0) <=> (result.verdict = "SAFE")
    /\ (exitCode = 1)
         <=> (result.verdict = "UNSAFE" /\ result.highestSeverity = "CRITICAL")
    /\ (exitCode = 2) <=> (result.verdict = "UNSAFE" /\ result.highestSeverity = "HIGH")
    /\ (exitCode = 3) <=> (result.verdict = "REVIEW_REQUIRED")
    /\ (exitCode = 4) <=> (result.verdict = "INCOMPLETE")
    /\ (result.verdict = "UNSAFE") => (result.highestSeverity \in {"CRITICAL", "HIGH"})

\* a run that exited with 2
C4_Witness ==
  /\ pc = "exited"
  /\ result.present
  /\ result.verdict = "UNSAFE"
  /\ result.highestSeverity = "HIGH"
  /\ exitCode = 2

\* C5: a run that ends with an error and no result exits with 10 only for an
\* input validation error (a missing argument, a missing or malformed
\* implementation path) and with 12 for every other error.
C5_ErrorExitCodes ==
  (pc = "exited" /\ ~result.present) =>
    LET inputError == argv # Flags \/ caught = UpgradoorError("INPUT_ERROR")
    IN /\ (exitCode = 10) <=> inputError
       /\ (exitCode = 12) <=> ~inputError

SevenNames ==
  {"proxy-detection", "storage-layout", "abi-diff", "uups-safety",
   "transparent-safety", "initializer-integrity", "access-control-regression"}

\* the proxy-pattern analyzer of the detected kind, and the other one
ActivePattern ==
  IF detected.proxyInfo.type = "uups" THEN "uups-safety" ELSE "transparent-safety"

InactivePattern ==
  IF detected.proxyInfo.type = "uups" THEN "transparent-safety" ELSE "uups-safety"

DetectedKindReason ==
  IF detected.proxyInfo.type = "uups" THEN "proxy-type-is-uups"
  ELSE "proxy-type-is-transparent"

HasSevenKeys ==
  /\ Len(result.analyzerStatus) = 7
  /\ Keys(result.analyzerStatus) = SevenNames

\* C6, as stated: every EngineResult has exactly the seven keys, and when
\* detection produced a ProxyInfo exactly one of uups-safety and
\* transparent-safety is completed and the other is skipped with reason
\* proxy-type-is-<detected kind>.
C6_ExactlyOneCompleted ==
  result.present =>
    /\ HasSevenKeys
    /\ detected.proxyInfo.present =>
         /\ Get(result.analyzerStatus, ActivePattern) = "completed"
         /\ Get(result.analyzerStatus, InactivePattern) = "skipped"
         /\ Get(analyzerResults, InactivePattern).reason = DetectedKindReason

\* C6, amended: every EngineResult has exactly the seven keys, and when
\* detection produced a ProxyInfo the analyzer of the detected kind is
\* completed or errored and the other one is skipped with reason
\* proxy-type-is-<detected kind>.
C6_SevenKeys ==
  result.present =>
    /\ HasSevenKeys
    /\ detected.proxyInfo.present =>
         /\ Get(result.analyzerStatus, ActivePattern) \in {"completed", "errored"}
         /\ Get(result.analyzerStatus, InactivePattern) = "skipped"
         /\ Get(analyzerResults, InactivePattern).reason = DetectedKindReason

\* a result for a UUPS proxy whose uups-safety analyzer errored
C6_Witness ==
  /\ result.present
  /\ detected.proxyInfo.present
  /\ detected.proxyInfo.type = "uups"
  /\ Get(result.analyzerStatus, "uups-safety") = "errored"
  /\ Get(analyzerResults, "transparent-safety") = Skipped("proxy-type-is-uups")

C8_SameResult ==
  (run = 2 /\ pc = "exited") => (result = prev.result)

\* the analyzer behind each element of the allSettled array
FanOutName(k) ==
  CASE k = 1 -> "storage-layout"
    [] k = 2 -> "abi-diff"
    [] k = 3 -> ActivePattern
    [] k = 4 -> "initializer-integrity"
    [] k = 5 -> "access-control-regression"

\* C9: once the fan-out has begun no error reaches main, and in the result
\* returned an analyzer is errored iff it threw, every other one having the
\* outcome it produced itself.
C9_ThrowIsolated ==
  /\ resolved.ok => caught = NoError
  /\ (resolved.ok /\ result.present) =>
       \A k \in 1..Len(settled) :
         IF settled[k].status = "rejected"
           THEN Get(result.analyzerStatus, FanOutName(k)) = "errored"
           ELSE Get(analyzerResults, FanOutName(k)) = settled[k].value

\* C10: detectProxy returns what the decision procedure gives on the values
\* read: beacon non-zero, PROXY-001; else implementation zero, PROXY-002; else
\* implementation code empty, PROXY-003; else the code holds the proxiableUUID
\* selector, UUPS; else admin non-zero, Transparent; else the proxy's code
\* holds ADMIN_SLOT, Transparent; else PROXY-005.  The result is completed,
\* with one blocking finding and no ProxyInfo or a ProxyInfo and no finding,
\* and the ProxyInfo has an admin address iff it is Transparent.
C10_DecisionProcedure ==
  pc = "dp_ret" =>
    LET beacon == frame.beaconSlot.lo
        impl == frame.implSlot.lo
        admin == frame.adminSlot.lo
        kind ==
          IF beacon # ZERO_ADDRESS THEN "PROXY-001"
          ELSE IF impl = ZERO_ADDRESS THEN "PROXY-002"
          ELSE IF ~frame.implCode.defined \/ frame.implCode.hex = << "0x" >>
            THEN "PROXY-003"
          ELSE IF Includes(frame.implCode.hex, << "52d1", "902d" >>) THEN "uups"
          ELSE IF admin # ZERO_ADDRESS THEN "transparent"
          ELSE IF frame.proxyCode.defined
                  /\ Includes(frame.proxyCode.hex, Tail(ADMIN_SLOT))
            THEN "transparent"
          ELSE "PROXY-005"
    IN /\ detected.result.status = "completed"
       /\ IF kind \in {"uups", "transparent"}
            THEN /\ detected.result.findings = <<>>
                 /\ detected.proxyInfo.present
                 /\ detected.proxyInfo.type = kind
                 /\ detected.proxyInfo.proxyAddress = input.proxyAddress
                 /\ detected.proxyInfo.implementationAddress = impl
                 /\ detected.proxyInfo.hasAdmin <=> (kind = "transparent")
                 /\ detected.proxyInfo.hasAdmin => detected.proxyInfo.adminAddress = admin
            ELSE /\ detected.result.findings = << Finding(kind, "CRITICAL") >>
                 /\ ~detected.proxyInfo.present

\* a proxy with a zero admin classified Transparent by its own bytecode
C10_Witness ==
  /\ pc = "dp_ret"
  /\ frame.adminSlot.lo = ZERO_ADDRESS
  /\ frame.adminSlot.hi # 0
  /\ frame.proxyCode.defined
  /\ detected.proxyInfo.present
  /\ detected.proxyInfo.type = "transparent"
  /\ detected.proxyInfo.hasAdmin

\* C11: a proxy with a zero beacon, a non-zero implementation whose code lacks
\* the UUPS selector, a zero admin and bytecode that holds ADMIN_SLOT is
\* classified Transparent with that zero admin; and the result returned for a
\* Transparent proxy with a zero admin, no analyzer having errored, carries
\* TPROXY-001 as a Critical finding and is Unsafe.
C11_ZeroAdminUnsafe ==
  /\ (/\ pc = "dp_ret"
      /\ frame.beaconSlot.lo = ZERO_ADDRESS
      /\ frame.implSlot.lo # ZERO_ADDRESS
      /\ frame.implCode.defined
      /\ frame.implCode.hex # << "0x" >>
      /\ ~Includes(frame.implCode.hex, << "52d1", "902d" >>)
      /\ frame.adminSlot.lo = ZERO_ADDRESS
      /\ frame.proxyCode.defined
      /\ Includes(frame.proxyCode.hex, Tail(ADMIN_SLOT))) =>
        /\ detected.proxyInfo.present
        /\ detected.proxyInfo.type = "transparent"
        /\ detected.proxyInfo.adminAddress = ZERO_ADDRESS
        /\ detected.result = Completed(<<>>)
  /\ (/\ result.present
      /\ detected.proxyInfo.present
      /\ detected.proxyInfo.type = "transparent"
      /\ detected.proxyInfo.adminAddress = ZERO_ADDRESS
      /\ ~SomeStatus(result.analyzerStatus, "errored")) =>
        /\ \E j \in 1..Len(result.findings) :
             result.findings[j] = Finding("TPROXY-001", "CRITICAL")
        /\ result.verdict = "UNSAFE"
        /\ result.highestSeverity = "CRITICAL"

\* a run on a zero-admin transparent proxy that exited with 1
C11_Witness ==
  /\ pc = "exited"
  /\ result.present
  /\ detected.proxyInfo.type = "transparent"
  /\ detected.proxyInfo.adminAddress = ZERO_ADDRESS
  /\ Get(result.analyzerStatus, "transparent-safety") = "completed"
  /\ result.verdict = "UNSAFE"
  /\ exitCode = 1

(***************************************************************************)
(* A direct call of one analyzer, as the analyzers' unit tests call them.  *)
(***************************************************************************)
InitDirect(where, args) ==
  /\ pc = where
  /\ argv = Flags
  /\ frame = EmptyFrame
  /\ detected = NoDetection
  /\ analyzerResults = <<>>
  /\ resolved = NoResolved
  /\ settled = <<>>
  /\ result = NoResult
  /\ caught = NoError
  /\ exitCode = -1
  /\ run = 0
  /\ memo = MemoInit
  /\ prev = NoPrev
  /\ aggIn = <<>>
  /\ aggOut = NoAggregated
  /\ call = args
  /\ ret = NoReturn

\* the call returns: only pc and ret change
Return(where, value) ==
  /\ pc' = where
  /\ ret' = value
  /\ UNCHANGED << argv, frame, detected, analyzerResults, resolved, settled, result,
                  caught, exitCode, run, memo, prev, aggIn, aggOut, call >>

(***************************************************************************)
(* analyzers/storage-layout.ts                                             *)
(*                                                                         *)
(* A CanonicalStorageEntry is its slot, offset, length, canonicalType and  *)
(* label.  A finding of this analyzer is its code, its severity and the    *)
(* slot of its details (-1 where the details name none).                   *)
(***************************************************************************)
\* most entries in one storage layout
MaxLayoutLen == 2
\* the highest slot of an entry
MaxSlot == 1

StorFinding(code, severity, slot) == [code |-> code, severity |-> severity, slot |-> slot]

\* GAP_LABEL_RE.test(label), /gap$/i
EndsInGap(label) == label \in {"__gap", "__GAP", "gap"}

\* canonicalType.startsWith("uint256[")
IsUint256Array(canonicalType) ==
  canonicalType \in {"uint256[1]", "uint256[2]", "uint256[3]", "uint256[]"}

isGapEntry(entry) == EndsInGap(entry.label) /\ IsUint256Array(entry.canonicalType)

\* canonicalType.match(/\[(\d+)\]/), parseInt of the first group, 0 without a match
extractArraySize(canonicalType) ==
  CASE canonicalType = "uint256[1]" -> 1
    [] canonicalType = "uint256[2]" -> 2
    [] canonicalType = "uint256[3]" -> 3
    [] OTHER -> 0

\* `${e.slot}:${e.offset}`
SlotOffset(e) == << e.slot, e.offset >>

\* new Map(layout.map((e) => [key, e])): a key keeps the place of its first
\* entry and the value of its last
RECURSIVE BySlotOffset(_, _)
BySlotOffset(map, layout) ==
  IF layout = <<>> THEN map
  ELSE BySlotOffset(Put(map, SlotOffset(Head(layout)), Head(layout)), Tail(layout))

\* the deletion check without the suppression of lines 28-33
NeverAppearsAtHigherSlot(oldEntry, newLayout) == FALSE

\* lines 30-32
AppearsAtHigherSlot(oldEntry, newLayout) ==
  \E i \in 1..Len(newLayout) :
    newLayout[i].label = oldEntry.label /\ newLayout[i].slot > oldEntry.slot

\* one turn of the loop of lines 23-120
PrimaryFindings(oldEntry, newLayout, newBySlotOffset) ==
  IF isGapEntry(oldEntry) THEN <<>>
  ELSE IF ~HasKey(newBySlotOffset, SlotOffset(oldEntry))
    THEN IF AppearsAtHigherSlot(oldEntry, newLayout) THEN <<>>
         ELSE << StorFinding("STOR-001", "CRITICAL", oldEntry.slot) >>
  ELSE LET newEntry == Get(newBySlotOffset, SlotOffset(oldEntry))
       IN IF oldEntry.length # newEntry.length
            THEN << StorFinding("STOR-003", "CRITICAL", oldEntry.slot) >>
          ELSE IF oldEntry.canonicalType # newEntry.canonicalType
            THEN << StorFinding("STOR-004", "CRITICAL", oldEntry.slot) >>
          ELSE IF oldEntry.label # newEntry.label
            THEN << StorFinding("STOR-010", "LOW", oldEntry.slot) >>
          ELSE <<>>

RECURSIVE PrimaryLoop(_, _, _)
PrimaryLoop(oldEntries, newLayout, newBySlotOffset) ==
  IF oldEntries = <<>> THEN <<>>
  ELSE PrimaryFindings(Head(oldEntries).value, newLayout, newBySlotOffset)
       \o PrimaryLoop(Tail(oldEntries), newLayout, newBySlotOffset)

\* Math.max(...oldLayout.filter((e) => !isGapEntry(e)).map((e) => e.slot), 0)
MaxOldSlot(oldLayout) ==
  LET slots == {oldLayout[i].slot : i \in {j \in 1..Len(oldLayout) : ~isGapEntry(oldLayout[j])}}
                 \cup {0}
  IN CHOOSE m \in slots : \A x \in slots : x <= m

\* the test of line 128 without the lookup in old
IsWithinOldRange(newEntry, oldBySlotOffset, maxOldSlot) ==
  /\ ~isGapEntry(newEntry)
  /\ newEntry.slot <= maxOldSlot

\* the test of line 128
IsInserted(newEntry, oldBySlotOffset, maxOldSlot) ==
  /\ ~isGapEntry(newEntry)
  /\ ~HasKey(oldBySlotOffset, SlotOffset(newEntry))
  /\ newEntry.slot <= maxOldSlot

\* the loop of lines 126-144
RECURSIVE InsertedLoop(_, _, _)
InsertedLoop(newLayout, oldBySlotOffset, maxOldSlot) ==
  IF newLayout = <<>> THEN <<>>
  ELSE (IF IsInserted(Head(newLayout), oldBySlotOffset, maxOldSlot)
          THEN << StorFinding("STOR-002", "CRITICAL", Head(newLayout).slot) >>
          ELSE <<>>)
       \o InsertedLoop(Tail(newLayout), oldBySlotOffset, maxOldSlot)

\* lines 147-149
NewVars(newLayout, oldBySlotOffset, maxOldSlot) ==
  SelectSeq(newLayout,
            LAMBDA e : /\ ~isGapEntry(e)
                       /\ ~HasKey(oldBySlotOffset, SlotOffset(e))
                       /\ e.slot > maxOldSlot)

\* lines 150-163
AppendedFindings(newVars) ==
  IF Len(newVars) > 0 THEN << StorFinding("STOR-009", "MEDIUM", -1) >> ELSE <<>>

\* newGaps.find((g) => g.slot === oldGap.slot)
HasMatchingGap(newGaps, oldGap) == \E i \in 1..Len(newGaps) : newGaps[i].slot = oldGap.slot

MatchingNewGap(newGaps, oldGap) ==
  newGaps[CHOOSE i \in 1..Len(newGaps) :
            /\ newGaps[i].slot = oldGap.slot
            /\ \A j \in 1..(i - 1) : newGaps[j].slot # oldGap.slot]

\* the gap comparison without the appended variables
GapShrank(newN, totalNewVarsAdded, oldN) == newN < oldN

\* newN + totalNewVarsAdded < oldN
GapInsufficient(newN, totalNewVarsAdded, oldN) == newN + totalNewVarsAdded < oldN

\* one turn of the loop of validateGaps
GapFindings(oldGap, newGaps, totalNewVarsAdded) ==
  IF ~HasMatchingGap(newGaps, oldGap)
    THEN << StorFinding("STOR-008", "HIGH", oldGap.slot) >>
  ELSE IF GapInsufficient(extractArraySize(MatchingNewGap(newGaps, oldGap).canonicalType),
                          totalNewVarsAdded,
                          extractArraySize(oldGap.canonicalType))
    THEN << StorFinding("STOR-007", "HIGH", MatchingNewGap(newGaps, oldGap).slot) >>
  ELSE <<>>

RECURSIVE GapLoop(_, _, _)
GapLoop(oldGaps, newGaps, totalNewVarsAdded) ==
  IF oldGaps = <<>> THEN <<>>
  ELSE GapFindings(Head(oldGaps), newGaps, totalNewVarsAdded)
       \o GapLoop(Tail(oldGaps), newGaps, totalNewVarsAdded)

validateGaps(oldLayout, newLayout, totalNewVarsAdded) ==
  GapLoop(SelectSeq(oldLayout, isGapEntry), SelectSeq(newLayout, isGapEntry),
          totalNewVarsAdded)

analyzeStorageLayout(oldLayout, newLayout) ==
  LET oldBySlotOffset == BySlotOffset(<<>>, oldLayout)
      newBySlotOffset == BySlotOffset(<<>>, newLayout)
      maxOldSlot == MaxOldSlot(oldLayout)
      newVars == NewVars(newLayout, oldBySlotOffset, maxOldSlot)
  IN Completed(PrimaryLoop(oldBySlotOffset, newLayout, newBySlotOffset)
               \o InsertedLoop(newLayout, oldBySlotOffset, maxOldSlot)
               \o AppendedFindings(newVars)
               \o validateGaps(oldLayout, newLayout, Len(newVars)))

(***************************************************************************)
(* resolver/layout-extractor.ts on the output of forge inspect             *)
(***************************************************************************)
\* raw.types: the label and the numberOfBytes of each type id
ForgeTypes ==
  [t \in {"t_uint256", "t_bytes32", "t_uint128", "t_array(t_uint256)1_storage",
          "t_array(t_uint256)2_storage"} |->
    CASE t = "t_uint256" -> [label |-> "uint256", numberOfBytes |-> 32]
      [] t = "t_bytes32" -> [label |-> "bytes32", numberOfBytes |-> 32]
      [] t = "t_uint128" -> [label |-> "uint128", numberOfBytes |-> 16]
      [] t = "t_array(t_uint256)1_storage" -> [label |-> "uint256[1]", numberOfBytes |-> 32]
      [] t = "t_array(t_uint256)2_storage" -> [label |-> "uint256[2]", numberOfBytes |-> 64]]

\* parseInt(digits, 16) of a string of decimal digits
RECURSIVE ParseInt16(_, _)
ParseInt16(acc, digits) ==
  IF digits = <<>> THEN acc
  ELSE ParseInt16(acc * 16 + Head(digits), Tail(digits))

canonicalizeType(typeId) ==
  IF typeId \in DOMAIN ForgeTypes THEN ForgeTypes[typeId].label ELSE typeId

\* raw.storage.map(...) of extractStorageLayout
extractStorageLayout(storage) ==
  [i \in 1..Len(storage) |->
    [slot |-> ParseInt16(0, storage[i].slot),
     offset |-> storage[i].offset,
     length |-> IF storage[i].type \in DOMAIN ForgeTypes
                  THEN ForgeTypes[storage[i].type].numberOfBytes ELSE 32,
     canonicalType |-> canonicalizeType(storage[i].type),
     label |-> storage[i].label]]

\* the variables a slot of the old implementation holds in this model
OldVariants ==
  { [offset |-> 0, type |-> "t_uint256", label |-> "a"],
    [offset |-> 0, type |-> "t_array(t_uint256)2_storage", label |-> "__gap"],
    [offset |-> 16, type |-> "t_uint128", label |-> "b"] }

\* the variables a slot of the new implementation holds in this model
NewVariants ==
  OldVariants \cup
  { [offset |-> 0, type |-> "t_uint256", label |-> "b"],
    [offset |-> 0, type |-> "t_bytes32", label |-> "a"],
    [offset |-> 0, type |-> "t_uint128", label |-> "a"],
    [offset |-> 0, type |-> "t_array(t_uint256)1_storage", label |-> "__gap"] }

\* the entries of raw.storage: slot is a string of decimal digits
RawEntries(variants) ==
  { [slot |-> << d >>, offset |-> v.offset, type |-> v.type, label |-> v.label] :
      d \in 0..MaxSlot, v \in variants }

RawBefore(a, b) ==
  \/ a.slot[1] < b.slot[1]
  \/ a.slot[1] = b.slot[1] /\ a.offset <= b.offset

\* raw.storage: entries in the order of their slots and offsets
RawLayouts(variants) ==
  { l \in SeqsUpTo(RawEntries(variants), MaxLayoutLen) :
      \A i, j \in 1..Len(l) : i < j => (RawBefore(l[i], l[j]) /\ l[i] # l[j]) }

InitStorage ==
  \E rawOld \in RawLayouts(OldVariants) :
    \E rawNew \in RawLayouts(NewVariants) :
      InitDirect("storage_extract",
                 [rawOld |-> rawOld, rawNew |-> rawNew, old |-> <<>>, new |-> <<>>])

\* input-resolver.ts:73-76: the two extractStorageLayout calls
ExtractLayouts ==
  /\ pc = "storage_extract"
  /\ call' = [call EXCEPT !.old = extractStorageLayout(call.rawOld),
                          !.new = extractStorageLayout(call.rawNew)]
  /\ pc' = "storage_call"
  /\ UNCHANGED << argv, frame, detected, analyzerResults, resolved, settled, result,
                  caught, exitCode, run, memo, prev, aggIn, aggOut, ret >>

StorageCall ==
  /\ pc = "storage_call"
  /\ Return("storage_done", analyzeStorageLayout(call.old, call.new))

NextStorage == ExtractLayouts \/ StorageCall

SpecStorage == InitStorage /\ [][NextStorage]_vars

\* no two entries of the layout share (slot, offset)
DistinctSlotOffsets(layout) ==
  \A i, j \in 1..Len(layout) :
    i < j => << layout[i].slot, layout[i].offset >> # << layout[j].slot, layout[j].offset >>

\* a gap entry: a label ending in gap (any case) and a type uint256[N]
IsGap(e) ==
  /\ e.label \in {"__gap", "__GAP", "gap"}
  /\ e.canonicalType \in {"uint256[1]", "uint256[2]", "uint256[3]"}

\* what the primary comparison owes one old entry
OwedPrimary(e, new) ==
  LET atKey == {i \in 1..Len(new) : new[i].slot = e.slot /\ new[i].offset = e.offset}
  IN IF IsGap(e) THEN <<>>
     ELSE IF atKey = {}
       THEN IF \E i \in 1..Len(new) : new[i].label = e.label /\ new[i].slot > e.slot
              THEN <<>>
              ELSE << StorFinding("STOR-001", "CRITICAL", e.slot) >>
     ELSE LET n == new[CHOOSE i \in atKey : TRUE]
          IN IF n.length # e.length THEN << StorFinding("STOR-003", "CRITICAL", e.slot) >>
             ELSE IF n.canonicalType # e.canonicalType
               THEN << StorFinding("STOR-004", "CRITICAL", e.slot) >>
             ELSE IF n.label # e.label THEN << StorFinding("STOR-010", "LOW", e.slot) >>
             ELSE <<>>

RECURSIVE OwedPrimaryAll(_, _)
OwedPrimaryAll(old, new) ==
  IF old = <<>> THEN <<>>
  ELSE OwedPrimary(Head(old), new) \o OwedPrimaryAll(Tail(old), new)

\* C12: on layouts whose entries have distinct (slot, offset), the findings
\* STOR-001, STOR-003, STOR-004 and STOR-010 of analyzeStorageLayout are, old
\* entry by old entry, exactly the one the table gives for a non-gap entry
\* (deleted unless the label appears at a higher slot, width changed, type
\* changed, renamed, or none), and none for a gap entry.
C12_PrimaryComparison ==
  (pc = "storage_done" /\ DistinctSlotOffsets(call.old) /\ DistinctSlotOffsets(call.new)) =>
    /\ ret.status = "completed"
    /\ SelectSeq(ret.findings,
                 LAMBDA f : f.code \in {"STOR-001", "STOR-003", "STOR-004", "STOR-010"})
         = OwedPrimaryAll(call.old, call.new)

\* a call that reports a type change and a deletion and suppresses nothing
C12_Witness ==
  /\ pc = "storage_done"
  /\ DistinctSlotOffsets(call.old)
  /\ DistinctSlotOffsets(call.new)
  /\ \E i \in 1..Len(ret.findings) : ret.findings[i].code = "STOR-004"
  /\ \E i \in 1..Len(ret.findings) : ret.findings[i].code = "STOR-001"
  /\ \E i \in 1..Len(call.new) : call.new[i].slot > 0

\* new is old with one more variable put at the slot of old's p-th entry, the
\* entries from the p-th on moved up by one slot
IsMidInsertion(old, new) ==
  /\ Len(new) = Len(old) + 1
  /\ \E p \in 1..Len(old) :
       /\ \A i \in 1..(p - 1) : new[i] = old[i]
       /\ new[p].slot = old[p].slot
       /\ new[p].offset = 0
       /\ ~IsGap(new[p])
       /\ \A i \in 1..Len(old) : new[p].label # old[i].label
       /\ \A i \in p..Len(old) : new[i + 1] = [old[i] EXCEPT !.slot = @ + 1]

\* C13: when the new layout is the old one with a variable inserted in the
\* middle, analyzeStorageLayout emits a STOR-002 finding of severity Critical.
C13_InsertionReported ==
  (pc = "storage_done" /\ DistinctSlotOffsets(call.old) /\ IsMidInsertion(call.old, call.new)) =>
    \E i \in 1..Len(ret.findings) :
      ret.findings[i].code = "STOR-002" /\ ret.findings[i].severity = "CRITICAL"

\* the number of appended variables: new non-gap entries without a counterpart
\* in old, at a slot above the highest old non-gap slot (0 if there is none)
AppendedCount(old, new) ==
  Cardinality({i \in 1..Len(new) :
     /\ ~IsGap(new[i])
     /\ \A j \in 1..Len(old) :
          << old[j].slot, old[j].offset >> # << new[i].slot, new[i].offset >>
     /\ new[i].slot > 0
     /\ \A j \in 1..Len(old) : IsGap(old[j]) \/ new[i].slot > old[j].slot})

\* what gap validation owes one old entry
OwedGap(g, old, new) ==
  LET same == {i \in 1..Len(new) : IsGap(new[i]) /\ new[i].slot = g.slot}
  IN IF ~IsGap(g) THEN <<>>
     ELSE IF same = {} THEN << StorFinding("STOR-008", "HIGH", g.slot) >>
     ELSE IF extractArraySize(new[CHOOSE i \in same : TRUE].canonicalType)
               + AppendedCount(old, new) < extractArraySize(g.canonicalType)
       THEN << StorFinding("STOR-007", "HIGH", g.slot) >>
     ELSE <<>>

RECURSIVE OwedGapAll(_, _, _)
OwedGapAll(rest, old, new) ==
  IF rest = <<>> THEN <<>>
  ELSE OwedGap(Head(rest), old, new) \o OwedGapAll(Tail(rest), old, new)

\* C14: on layouts whose entries have distinct (slot, offset), each old gap
\* entry gets STOR-008 iff no new gap entry has its slot, else STOR-007 iff
\* N_new + V < N_old, V being the number of appended variables; no other
\* STOR-007 or STOR-008 is emitted.
C14_GapValidation ==
  (pc = "storage_done" /\ DistinctSlotOffsets(call.old) /\ DistinctSlotOffsets(call.new)) =>
    SelectSeq(ret.findings, LAMBDA f : f.code \in {"STOR-007", "STOR-008"})
      = OwedGapAll(call.old, call.old, call.new)

\* a call that reports an insufficient gap for a new layout that also holds a
\* variable
C14_Witness ==
  /\ pc = "storage_done"
  /\ DistinctSlotOffsets(call.old)
  /\ DistinctSlotOffsets(call.new)
  /\ \E i \in 1..Len(ret.findings) : ret.findings[i].code = "STOR-007"
  /\ \E i \in 1..Len(call.new) : ~IsGap(call.new[i])

\* C15: no layout handed to analyzeStorageLayout has two entries with the same
\* (slot, offset); toolchain output that has two ends in an error.
C15_DuplicatesRejected ==
  /\ pc = "storage_call" => (DistinctSlotOffsets(call.old) /\ DistinctSlotOffsets(call.new))
  /\ (pc = "storage_done"
        /\ ~(DistinctSlotOffsets(call.old) /\ DistinctSlotOffsets(call.new))) =>
       ret.status = "errored"

(***************************************************************************)
(* resolver/abi-extractor.ts and analyzers/abi-diff.ts                     *)
(*                                                                         *)
(* An item of forge's ABI output is its type, name, input types and output *)
(* types.  A hash is the pair of its first ten characters and the rest.    *)
(* A finding of this analyzer is its code, its severity and the signature  *)
(* (ABI-004: the selector) its details name.                               *)
(***************************************************************************)
\* most items in one ABI
MaxAbiLen == 3

\* for (const x of s) findings.push(...): what each turn of a loop pushes,
\* in the order of the turns
Flatten(pushed) ==
  LET f[i \in 0..Len(pushed)] == IF i = 0 THEN <<>> ELSE f[i - 1] \o pushed[i]
  IN f[Len(pushed)]

\* new Map(list.map((x) => [key(x), x])), keys[i] being the key of list[i]: a
\* key keeps the place of its first entry and the value of its last
IndexBy(keys, list) ==
  LET f[i \in 0..Len(list)] == IF i = 0 THEN <<>> ELSE Put(f[i - 1], keys[i], list[i])
  IN f[Len(list)]

\* keccak256 of the UTF-8 bytes of a signature
keccak256(signature) ==
  CASE signature = "burn(uint256)" ->
         << "0x42966c68", "9b5afe9b9b3f8a7103b2a19980d59629bfd6a20a60972312ed41d836" >>
    [] signature = "collate_propagate_storage(bytes16)" ->
         << "0x42966c68", "4c869f2e2e56c232c00c827b4e8fcd1119259bd54a90d765bf17bbd6" >>
    [] signature = "burn(uint128)" ->
         << "0x90bc1693", "c7512bf99c9561de3f5bc75366eaf9d399135a4169ba62e2a3f226aa" >>
    [] signature = "mint()" ->
         << "0x1249c58b", "84ff771f36a0d1d2bf0b42e48832b1567c4213f113d3990903cea57d" >>
    [] signature = "Transfer(address,address,uint256)" ->
         << "0xddf252ad", "1be2c89b69c2b068fc378daa952ba7f163c4a11628f55a4df523b3ef" >>
    [] signature = "Transfer(address,uint256)" ->
         << "0x69ca02dd", "4edd7bf0a4abb9ed3b7af3f14778db5d61921c7dc7cd545266326de2" >>

\* `${name}(${inputs.map((i) => i.type).join(",")})`
buildSignature(name, inputs) ==
  LET join[i \in 0..Len(inputs)] ==
        IF i = 0 THEN ""
        ELSE IF i = 1 THEN inputs[1]
        ELSE join[i - 1] \o "," \o inputs[i]
  IN name \o "(" \o join[Len(inputs)] \o ")"

\* hash.slice(0, 10)
computeSelector(signature) == keccak256(signature)[1]

extractAbi(items) ==
  [ functions |->
      Flatten([n \in 1..Len(items) |-> LET item == items[n] IN
                IF item.type = "function" /\ item.name # ""
                THEN << [selector |-> computeSelector(buildSignature(item.name, item.inputs)),
                         signature |-> buildSignature(item.name, item.inputs),
                         name |-> item.name,
                         inputs |-> item.inputs,
                         outputs |-> item.outputs] >>
                ELSE <<>>]),
    events |->
      Flatten([n \in 1..Len(items) |-> LET item == items[n] IN
                IF item.type = "event" /\ item.name # ""
                THEN << [topic0 |-> keccak256(buildSignature(item.name, item.inputs)),
                         signature |-> buildSignature(item.name, item.inputs),
                         name |-> item.name,
                         inputs |-> item.inputs] >>
                ELSE <<>>]) ]

AbiFinding(code, severity, about) == [code |-> code, severity |-> severity, about |-> about]

\* the mutation of SameNameInNew: no entry of the list is found by name
SameNameNever(named, list) == FALSE

\* list.find((f) => f.name === named.name), as a truth value
SameNameInNew(named, list) == \E i \in 1..Len(list) : list[i].name = named.name

\* the mutation of CollisionsInNew: the scan finds every selector new
CollisionsOfIndexed(functions) == <<>>

\* abi-diff.ts:47-69: newSelectors holds the selectors seen so far
CollisionsInNew(functions) ==
  LET scan[i \in 0..Len(functions)] ==
        IF i = 0 THEN [seen |-> <<>>, findings |-> <<>>]
        ELSE LET fn == functions[i]
                 before == scan[i - 1]
             IN IF HasKey(before.seen, fn.selector)
                THEN [seen |-> before.seen,
                      findings |-> Append(before.findings,
                                          AbiFinding("ABI-002", "CRITICAL", fn.signature))]
                ELSE [seen |-> Put(before.seen, fn.selector, fn.signature),
                      findings |-> before.findings]
  IN scan[Len(functions)].findings

analyzeAbiDiff(oldAbi, newAbi) ==
  LET Selectors(fns) == [i \in 1..Len(fns) |-> fns[i].selector]
      Topics(events) == [i \in 1..Len(events) |-> events[i].topic0]
      oldFunctions == IndexBy(Selectors(oldAbi.functions), oldAbi.functions)
      newFunctions == IndexBy(Selectors(newAbi.functions), newAbi.functions)
      oldEvents == IndexBy(Topics(oldAbi.events), oldAbi.events)
      newEvents == IndexBy(Topics(newAbi.events), newAbi.events)
      Each(F(_), entries) == Flatten([i \in 1..Len(entries) |-> F(entries[i])])
      Removed(entry) ==
        IF ~HasKey(newFunctions, entry.name)
        THEN IF SameNameInNew(entry.value, newAbi.functions)
             THEN << AbiFinding("ABI-003", "HIGH", entry.value.signature) >>
             ELSE << AbiFinding("ABI-001", "HIGH", entry.value.signature) >>
        ELSE <<>>
      ReturnChanged(entry) ==
        IF HasKey(newFunctions, entry.name)
           /\ entry.value.outputs # Get(newFunctions, entry.name).outputs
        THEN << AbiFinding("ABI-004", "MEDIUM", entry.name) >>
        ELSE <<>>
      Added(entry) ==
        IF ~HasKey(oldFunctions, entry.name)
        THEN << AbiFinding("ABI-005", "LOW", entry.value.signature) >>
        ELSE <<>>
      EventGone(entry) ==
        IF ~HasKey(newEvents, entry.name)
        THEN IF SameNameInNew(entry.value, newAbi.events)
             THEN << AbiFinding("ABI-006", "HIGH", entry.value.signature) >>
             ELSE << AbiFinding("ABI-007", "MEDIUM", entry.value.signature) >>
        ELSE <<>>
  IN Completed(Each(Removed, oldFunctions)
               \o CollisionsInNew(newAbi.functions)
               \o Each(ReturnChanged, oldFunctions)
               \o Each(Added, newFunctions)
               \o Each(EventGone, oldEvents))

\* the items of forge inspect <old> abi in this model
OldItems ==
  { [type |-> "function", name |-> "burn", inputs |-> << "uint256" >>, outputs |-> <<>>],
    [type |-> "function", name |-> "collate_propagate_storage", inputs |-> << "bytes16" >>,
     outputs |-> <<>>],
    [type |-> "function", name |-> "mint", inputs |-> <<>>, outputs |-> << "bool" >>],
    [type |-> "event", name |-> "Transfer", inputs |-> << "address", "address", "uint256" >>,
     outputs |-> <<>>],
    [type |-> "constructor", name |-> "", inputs |-> <<>>, outputs |-> <<>>] }

\* the items of forge inspect <new> abi in this model
NewItems ==
  { [type |-> "function", name |-> "burn", inputs |-> << "uint256" >>, outputs |-> <<>>],
    [type |-> "function", name |-> "burn", inputs |-> << "uint256" >>, outputs |-> << "bool" >>],
    [type |-> "function", name |-> "burn", inputs |-> << "uint128" >>, outputs |-> <<>>],
    [type |-> "function", name |-> "collate_propagate_storage", inputs |-> << "bytes16" >>,
     outputs |-> <<>>],
    [type |-> "event", name |-> "Transfer", inputs |-> << "address", "address", "uint256" >>,
     outputs |-> <<>>],
    [type |-> "event", name |-> "Transfer", inputs |-> << "address", "uint256" >>,
     outputs |-> <<>>] }

\* an ABI lists an item once
RawAbis(items) ==
  { l \in SeqsUpTo(items, MaxAbiLen) : \A i, j \in 1..Len(l) : i < j => l[i] # l[j] }

InitAbi ==
  \E rawOld \in RawAbis(OldItems) :
    \E rawNew \in RawAbis(NewItems) :
      InitDirect("abi_extract",
                 [rawOld |-> rawOld, rawNew |-> rawNew,
                  old |-> extractAbi(<<>>), new |-> extractAbi(<<>>)])

\* input-resolver.ts: the two extractAbi calls
ExtractAbis ==
  /\ pc = "abi_extract"
  /\ call' = [call EXCEPT !.old = extractAbi(call.rawOld), !.new = extractAbi(call.rawNew)]
  /\ pc' = "abi_call"
  /\ UNCHANGED << argv, frame, detected, analyzerResults, resolved, settled, result,
                  caught, exitCode, run, memo, prev, aggIn, aggOut, ret >>

AbiCall ==
  /\ pc = "abi_call"
  /\ Return("abi_done", analyzeAbiDiff(call.old, call.new))

NextAbi == ExtractAbis \/ AbiCall

SpecAbi == InitAbi /\ [][NextAbi]_vars

\* the findings of a list other than those with the code
WithoutCode(findings, code) == SelectSeq(findings, LAMBDA f : f.code # code)

\* the findings of a list with the code
WithCode(findings, code) == SelectSeq(findings, LAMBDA f : f.code = code)

Range(list) == {list[i] : i \in 1..Len(list)}

CountOf(list, x) == Cardinality({i \in 1..Len(list) : list[i] = x})

\* the two lists hold the same elements the same number of times
SameBag(a, b) ==
  /\ Len(a) = Len(b)
  /\ \A i \in 1..Len(a) : CountOf(a, a[i]) = CountOf(b, a[i])

\* the entries of a list that are the last of their key
LastOfKey(keys, list) ==
  Flatten([i \in 1..Len(list) |->
             IF \E j \in (i + 1)..Len(list) : keys[j] = keys[i]
             THEN <<>> ELSE << list[i] >>])

\* the last function of a list with the selector
LastWithSelector(functions, selector) ==
  functions[CHOOSE i \in 1..Len(functions) :
              /\ functions[i].selector = selector
              /\ \A j \in (i + 1)..Len(functions) : functions[j].selector # selector]

\* what the interface differ owes for the old functions, new functions and
\* old events it is asked about, compared against the whole new and old ABI
OwedAbi(oldFunctions, newFunctions, oldEvents, oldAbi, newAbi) ==
  LET InNew(f) == \E g \in Range(newAbi.functions) : g.selector = f.selector
      InOld(g) == \E f \in Range(oldAbi.functions) : f.selector = g.selector
      NameInNew(f) == \E g \in Range(newAbi.functions) : g.name = f.name
      EventInNew(e) == \E d \in Range(newAbi.events) : d.topic0 = e.topic0
      EventNameInNew(e) == \E d \in Range(newAbi.events) : d.name = e.name
      Each(F(_), list) == Flatten([i \in 1..Len(list) |-> F(list[i])])
  IN Each(LAMBDA f :
               IF ~InNew(f)
               THEN << AbiFinding(IF NameInNew(f) THEN "ABI-003" ELSE "ABI-001", "HIGH",
                                  f.signature) >>
               ELSE IF f.outputs # LastWithSelector(newAbi.functions, f.selector).outputs
               THEN << AbiFinding("ABI-004", "MEDIUM", f.selector) >>
               ELSE <<>>,
             oldFunctions)
     \o Each(LAMBDA g : IF InOld(g) THEN <<>>
                           ELSE << AbiFinding("ABI-005", "LOW", g.signature) >>,
                newFunctions)
     \o Each(LAMBDA e :
                  IF EventInNew(e) THEN <<>>
                  ELSE IF EventNameInNew(e)
                  THEN << AbiFinding("ABI-006", "HIGH", e.signature) >>
                  ELSE << AbiFinding("ABI-007", "MEDIUM", e.signature) >>,
                oldEvents)

\* C16 as stated: apart from ABI-002, analyzeAbiDiff emits exactly, for each
\* old function whose selector is absent from new, ABI-003 (High) if new has
\* a function of the same name and ABI-001 (High) otherwise; for each old
\* function whose selector is present in new, ABI-004 (Medium) iff the
\* output type lists differ; for each new function whose selector is absent
\* from old, one ABI-005 (Low); for each old event whose topic0 is absent
\* from new, ABI-006 (High) if a new event shares its name and ABI-007
\* (Medium) otherwise.
C16_PerFunction ==
  pc = "abi_done" =>
    /\ ret.status = "completed"
    /\ SameBag(WithoutCode(ret.findings, "ABI-002"),
               OwedAbi(call.old.functions, call.new.functions, call.old.events,
                       call.old, call.new))

\* C16, amended: the same, with "each old function" and "each new function"
\* read as each selector of the old and of the new ABI, represented by the
\* last function of the list that has it (and each old event as each old
\* topic0), so that functions sharing a selector owe one finding together.
C16_PerSelector ==
  pc = "abi_done" =>
    /\ ret.status = "completed"
    /\ SameBag(WithoutCode(ret.findings, "ABI-002"),
               OwedAbi(LastOfKey([i \in 1..Len(call.old.functions) |->
                                    call.old.functions[i].selector], call.old.functions),
                       LastOfKey([i \in 1..Len(call.new.functions) |->
                                    call.new.functions[i].selector], call.new.functions),
                       LastOfKey([i \in 1..Len(call.old.events) |->
                                    call.old.events[i].topic0], call.old.events),
                       call.old, call.new))

\* a call that reports a new function and a changed event for a new ABI in
\* which two functions share a selector
C16_Witness ==
  /\ pc = "abi_done"
  /\ \E f \in Range(ret.findings) : f.code = "ABI-005"
  /\ \E f \in Range(ret.findings) : f.code = "ABI-006"
  /\ \E f \in Range(ret.findings) : f.code = "ABI-002"

\* C17: ABI-002 (Critical) is emitted iff two functions of the new ABI share
\* a selector, once for each function of the new list that has an earlier
\* function with its selector, in the order of the list and whatever the
\* old ABI is.
C17_Collisions ==
  pc = "abi_done" =>
    LET fns == call.new.functions
        Later(i) == \E j \in 1..(i - 1) : fns[j].selector = fns[i].selector
    IN /\ WithCode(ret.findings, "ABI-002")
            = Flatten([i \in 1..Len(fns) |->
                         IF Later(i)
                         THEN << AbiFinding("ABI-002", "CRITICAL", fns[i].signature) >>
                         ELSE <<>>])
       /\ (WithCode(ret.findings, "ABI-002") # <<>>)
            <=> (\E i, j \in 1..Len(fns) : i # j /\ fns[i].selector = fns[j].selector)

\* a call that reports two collisions for three functions of one selector,
\* with an old ABI that holds a function
C17_Witness ==
  /\ pc = "abi_done"
  /\ Len(WithCode(ret.findings, "ABI-002")) = 2
  /\ call.old.functions # <<>>

(***************************************************************************)
(* analyzers/uups-safety.ts, analyzers/access-control-regression.ts and    *)
(* analyzers/initializer-integrity.ts                                      *)
(*                                                                         *)
(* A build artifact is present or not and holds the FunctionDefinition     *)
(* nodes of its AST in the order the walk meets them.  A node is its name, *)
(* kind, visibility ("" where the key is absent), the names of its         *)
(* modifiers, and its body: present or not, the number of its statements,  *)
(* the number of Assignment nodes under it, and the phrases its JSON text  *)
(* holds.  A modifier name and a keyword are sequences of characters.      *)
(***************************************************************************)
\* most FunctionDefinition nodes in one AST
MaxAstLen == 2

\* the modifier names of this model
ModifierNames ==
  [ onlyOwner |-> << "o", "n", "l", "y", "O", "w", "n", "e", "r" >>,
    onlyRole |-> << "o", "n", "l", "y", "R", "o", "l", "e" >>,
    onlyGovernance |-> << "o", "n", "l", "y", "G", "o", "v", "e", "r", "n", "a", "n", "c", "e" >>,
    Guarded |-> << "G", "u", "a", "r", "d", "e", "d" >>,
    nonReentrant |-> << "n", "o", "n", "R", "e", "e", "n", "t", "r", "a", "n", "t" >>,
    initializer |-> << "i", "n", "i", "t", "i", "a", "l", "i", "z", "e", "r" >>,
    reinitializer |-> << "r", "e", "i", "n", "i", "t", "i", "a", "l", "i", "z", "e", "r" >> ]

\* String.prototype.toLowerCase
toLowerCase(s) ==
  LET upper == << "A", "B", "C", "D", "E", "F", "G", "H", "I", "J", "K", "L", "M", "N", "O", "P", "Q", "R", "S", "T", "U", "V", "W", "X", "Y", "Z" >>
      lower == << "a", "b", "c", "d", "e", "f", "g", "h", "i", "j", "k", "l", "m", "n", "o", "p", "q", "r", "s", "t", "u", "v", "w", "x", "y", "z" >>
  IN [i \in 1..Len(s) |->
        IF \E k \in 1..Len(upper) : upper[k] = s[i]
        THEN lower[CHOOSE k \in 1..Len(upper) : upper[k] = s[i]]
        ELSE s[i]]

\* String.prototype.includes
StrIncludes(s, part) ==
  \E i \in 0..(Len(s) - Len(part)) : SubSeq(s, i + 1, i + Len(part)) = part

\* String.prototype.startsWith
startsWith(s, prefix) ==
  Len(s) >= Len(prefix) /\ SubSeq(s, 1, Len(prefix)) = prefix

ACCESS_CONTROL_MODIFIER_KEYWORDS ==
  << << "o", "n", "l", "y" >>,
     << "a", "u", "t", "h" >>,
     << "a", "u", "t", "h", "o", "r", "i", "z", "e", "d" >>,
     << "o", "w", "n", "e", "r" >>,
     << "a", "d", "m", "i", "n" >>,
     << "r", "o", "l", "e" >>,
     << "g", "u", "a", "r", "d" >> >>

isAccessControlModifier(name) ==
  \E k \in 1..Len(ACCESS_CONTROL_MODIFIER_KEYWORDS) :
    StrIncludes(toLowerCase(name), ACCESS_CONTROL_MODIFIER_KEYWORDS[k])

\* JSON.stringify(fn["body"] ?? {}) holds msg.sender or _msgSender
HasMsgSenderCheck(fn) ==
  fn.body.present /\ ("msg.sender" \in fn.body.text \/ "_msgSender" \in fn.body.text)

\* the mutation of hasAccessControl: the signal of the access-control differ
hasAccessControlByKeyword(fn) ==
  \/ \E i \in 1..Len(fn.modifiers) : isAccessControlModifier(fn.modifiers[i])
  \/ HasMsgSenderCheck(fn)

\* uups-safety.ts:39-58
hasAccessControl(fn) ==
  LET accessModifiers ==
        << << "o", "n", "l", "y", "O", "w", "n", "e", "r" >>,
           << "o", "n", "l", "y", "R", "o", "l", "e" >>,
           << "o", "n", "l", "y", "A", "d", "m", "i", "n" >>,
           << "a", "u", "t", "h" >>,
           << "a", "u", "t", "h", "o", "r", "i", "z", "e", "d" >>,
           << "g", "u", "a", "r", "d" >> >>
  IN \/ /\ Len(fn.modifiers) > 0
        /\ \E i \in 1..Len(fn.modifiers) : \E k \in 1..Len(accessModifiers) :
             StrIncludes(toLowerCase(fn.modifiers[i]), toLowerCase(accessModifiers[k]))
     \/ HasMsgSenderCheck(fn)

\* the first FunctionDefinition of the walk with the name, 0 for null
findFunctionInAst(ast, functionName) ==
  IF \E i \in 1..Len(ast) : ast[i].name = functionName
  THEN CHOOSE i \in 1..Len(ast) :
         /\ ast[i].name = functionName
         /\ \A j \in 1..(i - 1) : ast[j].name # functionName
  ELSE 0

analyzeUupsSafety(artifact) ==
  IF ~artifact.present THEN Errored("Build artifact not found")
  ELSE LET at == findFunctionInAst(artifact.nodes, "_authorizeUpgrade")
           fn == artifact.nodes[at]
       IN IF at = 0 THEN Completed(<< Finding("UUPS-001", "CRITICAL") >>)
          ELSE IF ~fn.body.present \/ fn.body.statements = 0
          THEN Completed(<< Finding("UUPS-002", "CRITICAL") >>)
          ELSE IF ~hasAccessControl(fn)
          THEN Completed(<< Finding("UUPS-003", "CRITICAL") >>)
          ELSE Completed(<<>>)

\* loadFunctions: no artifact, no functions
loadFunctions(artifact) == IF artifact.present THEN artifact.nodes ELSE <<>>

buildFunctionMap(functions) ==
  LET build[i \in 0..Len(functions)] ==
        IF i = 0 THEN <<>>
        ELSE LET fn == functions[i]
             IN IF fn.name = "" THEN build[i - 1]
                ELSE Put(build[i - 1], fn.name,
                         [visibility |-> IF fn.visibility = "" THEN "internal"
                                         ELSE fn.visibility,
                          modifiers |-> SelectSeq(fn.modifiers, LAMBDA m : m # <<>>),
                          hasMsgSenderCheck |-> HasMsgSenderCheck(fn)])
  IN build[Len(functions)]

AclFinding(code, severity, function) ==
  [code |-> code, severity |-> severity, function |-> function]

\* the mutation of Some: Array.prototype.every
Every(tested) == \A i \in 1..Len(tested) : tested[i]

\* Array.prototype.some, tested[i] being the test of the i-th element
Some(tested) == \E i \in 1..Len(tested) : tested[i]

analyzeAccessControlRegression(oldArtifact, newArtifact) ==
  LET oldMap == buildFunctionMap(loadFunctions(oldArtifact))
      newMap == buildFunctionMap(loadFunctions(newArtifact))
      SomeModifier(fn, Test(_)) ==
        Some([i \in 1..Len(fn.modifiers) |-> Test(fn.modifiers[i])])
      PerFunction(entry) ==
        IF ~HasKey(newMap, entry.name) THEN <<>>
        ELSE
          LET fnName == entry.name
              oldFn == entry.value
              newFn == Get(newMap, fnName)
              hadOnlyOwner == SomeModifier(oldFn, LAMBDA m : m = ModifierNames.onlyOwner)
              hasOnlyOwner == SomeModifier(newFn, LAMBDA m : m = ModifierNames.onlyOwner)
              hadOnlyRole ==
                SomeModifier(oldFn, LAMBDA m : startsWith(m, ModifierNames.onlyRole))
              hasOnlyRole ==
                SomeModifier(newFn, LAMBDA m : startsWith(m, ModifierNames.onlyRole))
              hadCustom == SomeModifier(oldFn, isAccessControlModifier)
              hasCustom == SomeModifier(newFn, isAccessControlModifier)
              wasInternal == oldFn.visibility = "internal" \/ oldFn.visibility = "private"
              isNowPublic == newFn.visibility = "public" \/ newFn.visibility = "external"
              hadAc == hadCustom \/ oldFn.hasMsgSenderCheck
              hasAc == hasCustom \/ newFn.hasMsgSenderCheck
          IN (IF hadOnlyOwner /\ ~hasOnlyOwner
              THEN << AclFinding("ACL-001", "CRITICAL", fnName) >> ELSE <<>>)
             \o (IF hadOnlyRole /\ ~hasOnlyRole
                 THEN << AclFinding("ACL-002", "CRITICAL", fnName) >> ELSE <<>>)
             \o (IF hadCustom /\ ~hasCustom /\ ~hadOnlyOwner /\ ~hadOnlyRole
                 THEN << AclFinding("ACL-003", "HIGH", fnName) >> ELSE <<>>)
             \o (IF wasInternal /\ isNowPublic
                 THEN << AclFinding("ACL-004", "HIGH", fnName) >> ELSE <<>>)
             \o (IF fnName = "_authorizeUpgrade" /\ hadAc /\ ~hasAc
                 THEN << AclFinding("ACL-007", "CRITICAL", fnName) >> ELSE <<>>)
  IN Completed(Flatten([i \in 1..Len(oldMap) |-> PerFunction(oldMap[i])]))

\* the mutation of CarriesModifier: reinitializer counts as initializer
CarriesInitializerLike(f, names) ==
  \E i \in 1..Len(f.modifiers) :
    f.modifiers[i] \in {ModifierNames.initializer, ModifierNames.reinitializer}

\* modifiers?.some((m) => names.includes(m.modifierName?.name ?? ""))
CarriesModifier(f, names) == \E i \in 1..Len(f.modifiers) : f.modifiers[i] \in names

analyzeInitializerIntegrity(artifact) ==
  IF ~artifact.present THEN Errored("Build artifact not found")
  ELSE
    LET functions == artifact.nodes
        constructors == SelectSeq(functions, LAMBDA f : f.kind = "constructor")
        hasDisableInitializers ==
          \E i \in 1..Len(constructors) :
            constructors[i].body.present
              /\ "_disableInitializers" \in constructors[i].body.text
        initializerFunctions ==
          SelectSeq(functions,
                    LAMBDA f : CarriesModifier(f, {ModifierNames.initializer,
                                                   ModifierNames.reinitializer}))
        multipleInitializers ==
          SelectSeq(initializerFunctions,
                    LAMBDA f : CarriesModifier(f, {ModifierNames.initializer}))
    IN Completed(
         Flatten([i \in 1..Len(constructors) |->
                    IF constructors[i].body.assignments > 0
                    THEN << Finding("INIT-001", "CRITICAL") >> ELSE <<>>])
         \o (IF ~hasDisableInitializers /\ Len(constructors) > 0
             THEN << Finding("INIT-005", "MEDIUM") >> ELSE <<>>)
         \o (IF Len(initializerFunctions) = 0
             THEN << Finding("INIT-002", "HIGH") >> ELSE <<>>)
         \o (IF Len(multipleInitializers) > 1
             THEN << Finding("INIT-006", "HIGH") >> ELSE <<>>))

\* the FunctionDefinition nodes of this model: those of the new artifact the
\* UUPS and initializer analyzers read, and those of the old and new
\* artifact the access-control differ reads
AstNodes ==
  LET Node(name, kind, visibility, modifiers, body) ==
        [name |-> name, kind |-> kind, visibility |-> visibility,
         modifiers |-> modifiers, body |-> body]
      Body(statements, assignments, text) ==
        [present |-> TRUE, statements |-> statements, assignments |-> assignments,
         text |-> text]
      NoBody == [present |-> FALSE, statements |-> 0, assignments |-> 0, text |-> {}]
      Plain == Body(1, 0, {})
      M == ModifierNames
  IN [ new |->
         { Node("_authorizeUpgrade", "function", "internal", << M.onlyOwner >>, Plain),
           Node("_authorizeUpgrade", "function", "internal", << M.onlyGovernance >>, Plain),
           Node("_authorizeUpgrade", "function", "internal", <<>>,
                Body(1, 0, {"_msgSender"})),
           Node("_authorizeUpgrade", "function", "internal", << M.nonReentrant >>, Plain),
           Node("_authorizeUpgrade", "function", "internal", << M.onlyOwner >>,
                Body(0, 0, {})),
           Node("_authorizeUpgrade", "function", "internal", <<>>, NoBody),
           Node("", "constructor", "", <<>>, Body(1, 1, {})),
           Node("", "constructor", "", <<>>, Body(1, 0, {"_disableInitializers"})),
           Node("initialize", "function", "public", << M.initializer >>, Plain),
           Node("initializeV2", "function", "public", << M.reinitializer >>, Plain),
           Node("setup", "function", "external", << M.Guarded, M.initializer >>, Plain) },
       aclOld |->
         { Node("withdraw", "function", "public", << M.onlyOwner >>, Plain),
           Node("withdraw", "function", "public", << M.onlyRole >>, Plain),
           Node("withdraw", "function", "internal", << M.Guarded >>, Plain),
           Node("withdraw", "function", "", <<>>, Body(1, 0, {"msg.sender"})),
           Node("_authorizeUpgrade", "function", "internal", << M.onlyOwner >>, Plain),
           Node("_authorizeUpgrade", "function", "internal", <<>>,
                Body(1, 0, {"msg.sender"})) },
       aclNew |->
         { Node("withdraw", "function", "public", <<>>, Plain),
           Node("withdraw", "function", "public", <<>>, Body(1, 0, {"msg.sender"})),
           Node("withdraw", "function", "external", << M.onlyGovernance >>, Plain),
           Node("withdraw", "function", "internal", << M.onlyOwner >>, Plain),
           Node("_authorizeUpgrade", "function", "internal", <<>>, Plain),
           Node("_authorizeUpgrade", "function", "public", <<>>,
                Body(1, 0, {"_msgSender"})),
           Node("pause", "function", "public", <<>>, Plain) } ]

\* out/<file>/<contract>.json: missing, or an AST of distinct nodes
Artifacts(nodes) ==
  { [present |-> FALSE, nodes |-> <<>>] } \cup
  { [present |-> TRUE, nodes |-> l] :
      l \in { s \in SeqsUpTo(nodes, MaxAstLen) :
                \A i, j \in 1..Len(s) : i < j => s[i] # s[j] } }

InitAst == \E artifact \in Artifacts(AstNodes.new) :
  InitDirect("ast_built", [artifact |-> artifact])

UupsCall ==
  /\ pc = "ast_built"
  /\ Return("uups_done", analyzeUupsSafety(call.artifact))

InitializerCall ==
  /\ pc = "ast_built"
  /\ Return("init_done", analyzeInitializerIntegrity(call.artifact))

NextAst == UupsCall \/ InitializerCall

SpecAst == InitAst /\ [][NextAst]_vars

InitAcl ==
  \E old \in Artifacts(AstNodes.aclOld) :
    \E new \in Artifacts(AstNodes.aclNew) :
      InitDirect("acl_built", [old |-> old, new |-> new])

AclCall ==
  /\ pc = "acl_built"
  /\ Return("acl_done", analyzeAccessControlRegression(call.old, call.new))

NextAcl == AclCall

SpecAcl == InitAcl /\ [][NextAcl]_vars

\* the text of a body holds a reference to the sender
ReferencesSender(f) ==
  f.body.present /\ f.body.text \cap {"msg.sender", "_msgSender"} # {}

\* a modifier of the function has one of the keywords in its lowercased name
KeywordModifier(f, keywords) ==
  \E i \in 1..Len(f.modifiers) : \E k \in keywords :
    StrIncludes(toLowerCase(f.modifiers[i]), k)

\* the keywords of the access-control differ
DifferKeywords ==
  { << "o", "n", "l", "y" >>,
    << "a", "u", "t", "h" >>,
    << "a", "u", "t", "h", "o", "r", "i", "z", "e", "d" >>,
    << "o", "w", "n", "e", "r" >>,
    << "a", "d", "m", "i", "n" >>,
    << "r", "o", "l", "e" >>,
    << "g", "u", "a", "r", "d" >> }

\* the keywords of the UUPS check
UupsKeywords ==
  { << "o", "n", "l", "y", "o", "w", "n", "e", "r" >>,
    << "o", "n", "l", "y", "r", "o", "l", "e" >>,
    << "o", "n", "l", "y", "a", "d", "m", "i", "n" >>,
    << "a", "u", "t", "h" >>,
    << "a", "u", "t", "h", "o", "r", "i", "z", "e", "d" >>,
    << "g", "u", "a", "r", "d" >> }

\* what analyzeUupsSafety owes for a loaded AST when a signal is a modifier
\* with one of the keywords or a sender reference
OwedUups(nodes, keywords) ==
  LET named == SelectSeq(nodes, LAMBDA f : f.name = "_authorizeUpgrade")
  IN IF named = <<>> THEN << Finding("UUPS-001", "CRITICAL") >>
     ELSE IF ~named[1].body.present \/ named[1].body.statements = 0
     THEN << Finding("UUPS-002", "CRITICAL") >>
     ELSE IF ~(KeywordModifier(named[1], keywords) \/ ReferencesSender(named[1]))
     THEN << Finding("UUPS-003", "CRITICAL") >>
     ELSE <<>>

\* C18 as stated: on a loaded AST analyzeUupsSafety emits one finding or
\* none: UUPS-001 if no function is named _authorizeUpgrade, UUPS-002 if its
\* body is absent or has no statements, UUPS-003 if the body is not empty
\* and the function has no access-control signal, the signal being the one
\* of the access-control differ (a modifier whose lowercased name contains
\* only, auth, authorized, owner, admin, role or guard, or a sender
\* reference in the body), and nothing otherwise.
C18_DifferSignal ==
  (pc = "uups_done" /\ call.artifact.present) =>
    ret = Completed(OwedUups(call.artifact.nodes, DifferKeywords))

\* C18, amended: the same with the signal of uups-safety.ts: a modifier
\* whose lowercased name contains onlyowner, onlyrole, onlyadmin, auth,
\* authorized or guard, or a sender reference in the body.
C18_UupsSignal ==
  (pc = "uups_done" /\ call.artifact.present) =>
    ret = Completed(OwedUups(call.artifact.nodes, UupsKeywords))

\* a call that reports UUPS-003 for an _authorizeUpgrade with a body and a
\* modifier that has a keyword of the differ but none of the UUPS check
C18_Witness ==
  /\ pc = "uups_done"
  /\ ret.findings = << Finding("UUPS-003", "CRITICAL") >>
  /\ \E f \in Range(call.artifact.nodes) :
       /\ f.name = "_authorizeUpgrade"
       /\ KeywordModifier(f, DifferKeywords)

\* the last FunctionDefinition of a list with the name
LastNamed(nodes, name) ==
  nodes[CHOOSE i \in 1..Len(nodes) :
          nodes[i].name = name /\ \A j \in (i + 1)..Len(nodes) : nodes[j].name # name]

\* what the access-control differ owes for the names in both ASTs, a sender
\* reference counting as a signal for ACL-003 or not
OwedAcl(oldNodes, newNodes, senderCounts) ==
  LET Signal(f) ==
        KeywordModifier(f, DifferKeywords) \/ (senderCounts /\ ReferencesSender(f))
      Visibility(f) == IF f.visibility = "" THEN "internal" ELSE f.visibility
      Has(f, name) == \E i \in 1..Len(f.modifiers) : f.modifiers[i] = name
      HasPrefixed(f, prefix) ==
        \E i \in 1..Len(f.modifiers) :
          /\ Len(f.modifiers[i]) >= Len(prefix)
          /\ \A c \in 1..Len(prefix) : f.modifiers[i][c] = prefix[c]
      Owed(old) ==
        IF old.name = "" \/ ~\E g \in Range(newNodes) : g.name = old.name THEN <<>>
        ELSE
          LET new == LastNamed(newNodes, old.name)
              acl001 == Has(old, ModifierNames.onlyOwner) /\ ~Has(new, ModifierNames.onlyOwner)
              acl002 == HasPrefixed(old, ModifierNames.onlyRole)
                          /\ ~HasPrefixed(new, ModifierNames.onlyRole)
              acl003 == Signal(old) /\ ~Signal(new) /\ ~acl001 /\ ~acl002
              acl004 == Visibility(old) \in {"internal", "private"}
                          /\ Visibility(new) \in {"public", "external"}
              acl007 == /\ old.name = "_authorizeUpgrade"
                        /\ KeywordModifier(old, DifferKeywords) \/ ReferencesSender(old)
                        /\ ~(KeywordModifier(new, DifferKeywords) \/ ReferencesSender(new))
          IN (IF acl001 THEN << AclFinding("ACL-001", "CRITICAL", old.name) >> ELSE <<>>)
             \o (IF acl002 THEN << AclFinding("ACL-002", "CRITICAL", old.name) >> ELSE <<>>)
             \o (IF acl003 THEN << AclFinding("ACL-003", "HIGH", old.name) >> ELSE <<>>)
             \o (IF acl004 THEN << AclFinding("ACL-004", "HIGH", old.name) >> ELSE <<>>)
             \o (IF acl007 THEN << AclFinding("ACL-007", "CRITICAL", old.name) >> ELSE <<>>)
  IN Flatten([i \in 1..Len(oldNodes) |->
                IF \E j \in (i + 1)..Len(oldNodes) : oldNodes[j].name = oldNodes[i].name
                THEN <<>> ELSE Owed(oldNodes[i])])

\* C19 as stated: for each function name in both ASTs the differ emits
\* exactly the codes whose condition holds: ACL-001 iff old has onlyOwner
\* and new has not; ACL-002 iff old has a modifier starting with onlyRole
\* and new has none; ACL-003 iff old had an access-control signal (keyword
\* modifier or sender reference in the body), new has none, and neither
\* ACL-001 nor ACL-002 fired; ACL-004 iff old is internal or private and new
\* is public or external; ACL-007 iff the name is _authorizeUpgrade, old had
\* a keyword modifier or a sender check and new has neither.  A function
\* absent from new produces nothing.
C19_SignalRemoved ==
  pc = "acl_done" =>
    /\ ret.status = "completed"
    /\ SameBag(ret.findings,
               OwedAcl(call.old.nodes, call.new.nodes, TRUE))

\* C19, amended: the same, with ACL-003 reading modifiers only: old has a
\* keyword modifier, new has none, and neither ACL-001 nor ACL-002 fired.
C19_ModifierRemoved ==
  pc = "acl_done" =>
    /\ ret.status = "completed"
    /\ SameBag(ret.findings,
               OwedAcl(call.old.nodes, call.new.nodes, FALSE))

\* a call that reports ACL-007 and neither ACL-001 nor ACL-003: the old
\* _authorizeUpgrade checked the sender in its body, the new does nothing
C19_Witness ==
  /\ pc = "acl_done"
  /\ \E f \in Range(ret.findings) : f.code = "ACL-007"
  /\ ~\E f \in Range(ret.findings) : f.code \in {"ACL-001", "ACL-003"}

\* C20: on a loaded AST analyzeInitializerIntegrity emits exactly one
\* INIT-001 (Critical) per constructor that holds an assignment, INIT-005
\* (Medium) once iff there is a constructor and none calls
\* _disableInitializers, INIT-002 (High) once iff no function carries
\* initializer or reinitializer, and INIT-006 (High) once iff more than one
\* function carries initializer; INIT-002 and INIT-006 never come together.
C20_InitializerFindings ==
  (pc = "init_done" /\ call.artifact.present) =>
    LET nodes == call.artifact.nodes
        ctors == {i \in 1..Len(nodes) : nodes[i].kind = "constructor"}
        Carrying(names) ==
          {i \in 1..Len(nodes) :
             \E m \in 1..Len(nodes[i].modifiers) : nodes[i].modifiers[m] \in names}
        Times(code) == Len(WithCode(ret.findings, code))
        init005 == ctors # {} /\ \A i \in ctors :
                     ~(nodes[i].body.present
                       /\ "_disableInitializers" \in nodes[i].body.text)
        init002 == Carrying({ModifierNames.initializer, ModifierNames.reinitializer}) = {}
        init006 == Cardinality(Carrying({ModifierNames.initializer})) > 1
    IN /\ ret.status = "completed"
       /\ SameBag(ret.findings,
                  [i \in 1..Cardinality({c \in ctors : nodes[c].body.assignments > 0})
                     |-> Finding("INIT-001", "CRITICAL")]
                  \o (IF init005 THEN << Finding("INIT-005", "MEDIUM") >> ELSE <<>>)
                  \o (IF init002 THEN << Finding("INIT-002", "HIGH") >> ELSE <<>>)
                  \o (IF init006 THEN << Finding("INIT-006", "HIGH") >> ELSE <<>>))
       /\ ~(Times("INIT-002") > 0 /\ Times("INIT-006") > 0)

\* a call that reports INIT-006 for two functions that carry initializer
C20_Witness ==
  /\ pc = "init_done"
  /\ Finding("INIT-006", "HIGH") \in Range(ret.findings)

\* the three analyzers that read a build artifact, each called on its own
InitArtifacts == InitAst \/ InitAcl

NextArtifacts == NextAst \/ NextAcl

SpecArtifacts == InitArtifacts /\ [][NextArtifacts]_vars

\* C21: an analyzer that reads a build artifact (uups-safety,
\* initializer-integrity, access-control-regression) and does not find an
\* artifact it needs reports errored, never completed and never skipped.
C21_MissingArtifactErrored ==
  /\ (pc \in {"uups_done", "init_done"} /\ ~call.artifact.present)
       => ret.status = "errored"
  /\ (pc = "acl_done" /\ (~call.old.present \/ ~call.new.present))
       => ret.status = "errored"

\* the places of analyze before the fan-out: the toolchain probe, the chain
\* reads of proxy detection, and resolution
BeforeFanOut ==
  {"probe", "dp_impl", "dp_admin", "dp_beacon", "dp_implcode", "dp_proxycode",
   "dp_ret", "resolve"}

\* C22: a failure of the toolchain or of a chain read during the probe,
\* proxy detection or resolution aborts analyze with an UpgradoorError that
\* carries FOUNDRY_NOT_FOUND, INPUT_ERROR, CONTRACT_AMBIGUOUS, FOUNDRY_ERROR
\* or RUNTIME_ERROR, and no EngineResult is returned.
C22_TypedAbort ==
  [][(pc \in BeforeFanOut /\ pc' = "threw") =>
       /\ caught'.kind = "UpgradoorError"
       /\ caught'.code \in {"FOUNDRY_NOT_FOUND", "INPUT_ERROR", "CONTRACT_AMBIGUOUS",
                            "FOUNDRY_ERROR", "RUNTIME_ERROR"}
       /\ ~result'.present]_vars

\* the codes of the catalogue in lexicographic order
FindingCodes ==
  << "ABI-001", "ABI-002", "ABI-003", "ABI-004", "ABI-005", "ABI-006", "ABI-007",
     "ACL-001", "ACL-002", "ACL-003", "ACL-004", "ACL-007",
     "INIT-001", "INIT-002", "INIT-005", "INIT-006",
     "PROXY-001", "PROXY-002", "PROXY-003", "PROXY-005",
     "STOR-001", "STOR-002", "STOR-003", "STOR-004", "STOR-007", "STOR-008",
     "STOR-009", "STOR-010",
     "TPROXY-001", "TPROXY-002", "TPROXY-004",
     "UUPS-001", "UUPS-002", "UUPS-003" >>

CodeRank(code) == CHOOSE i \in 1..Len(FindingCodes) : FindingCodes[i] = code

\* the place, in the fixed order of the seven analyzers, of the analyzer
\* that emits the code
AnalyzerRank(code) ==
  LET r == CodeRank(code)
  IN CASE r \in 17..20 -> 1
       [] r \in 21..28 -> 2
       [] r \in 1..7 -> 3
       [] r \in 32..34 -> 4
       [] r \in 29..31 -> 5
       [] r \in 13..16 -> 6
       [] r \in 8..12 -> 7

\* the findings of an outcome that count: those of a completed analyzer
Emitted(r) == IF r.status = "completed" THEN r.findings ELSE <<>>

\* C23 as stated: the findings of a returned EngineResult are sorted by
\* analyzer in the order proxy-detection, storage-layout, abi-diff,
\* uups-safety, transparent-safety, initializer-integrity,
\* access-control-regression, and within an analyzer by finding code
\* lexicographically.
C23_SortedFindings ==
  (pc = "returned" /\ result.present) =>
    \A i, j \in 1..Len(result.findings) :
      i < j =>
        LET a == result.findings[i].code
            b == result.findings[j].code
        IN \/ AnalyzerRank(a) < AnalyzerRank(b)
           \/ AnalyzerRank(a) = AnalyzerRank(b) /\ CodeRank(a) <= CodeRank(b)

\* C23, amended: the findings of a returned EngineResult are grouped by
\* analyzer in that fixed order, and within an analyzer they keep the order
\* in which the analyzer emitted them: the list is the findings of proxy
\* detection followed, on the normal path, by those of the five fan-out
\* analyzers in the order of the fan-out, each as the analyzer returned it.
C23_EmissionOrder ==
  (pc = "returned" /\ result.present) =>
    /\ \A i, j \in 1..Len(result.findings) :
         i < j => AnalyzerRank(result.findings[i].code)
                    <= AnalyzerRank(result.findings[j].code)
    /\ result.findings =
         IF settled = <<>> THEN Emitted(detected.result)
         ELSE Emitted(detected.result)
              \o Emitted(settledToResult(settled[1]))
              \o Emitted(settledToResult(settled[2]))
              \o Emitted(settledToResult(settled[3]))
              \o Emitted(settledToResult(settled[4]))
              \o Emitted(settledToResult(settled[5]))

\* a returned result that lists STOR-010 before STOR-009, as the storage
\* analyzer emitted them, and after them a finding of a later analyzer
C23_Witness ==
  /\ pc = "returned"
  /\ result.present
  /\ Len(result.findings) >= 3
  /\ \E i \in 1..(Len(result.findings) - 2) :
       /\ result.findings[i].code = "STOR-010"
       /\ result.findings[i + 1].code = "STOR-009"
       /\ AnalyzerRank(result.findings[i + 2].code) > 2

\* the returned EngineResult lists a Critical finding
ListsCritical ==
  /\ pc = "returned"
  /\ result.present
  /\ \E i \in 1..Len(result.findings) : result.findings[i].severity = "CRITICAL"

SuppressedDeletions ==
  { i \in 1..Len(call.old) :
      /\ ~IsGap(call.old[i])
      /\ \A j \in 1..Len(call.new) : SlotOffset(call.new[j]) # SlotOffset(call.old[i])
      /\ \E j \in 1..Len(call.new) :
           /\ call.new[j].label = call.old[i].label
           /\ call.new[j].slot > call.old[i].slot }

\* C25: whenever analyzeStorageLayout suppresses STOR-001 for an old non-gap
\* entry whose label is at a higher slot in new, the same call emits at
\* least one STOR-002 finding.
C25_SuppressionCovered ==
  (pc = "storage_done" /\ SuppressedDeletions # {}) =>
    \E k \in 1..Len(ret.findings) : ret.findings[k].code = "STOR-002"

\* k new variables are added in front of a gap of old and take its first k
\* slots, the gap starts k slots later with its size k smaller, and every
\* other entry of old is in new as it was
ConsumedInFront(k) ==
  \E g \in 1..Len(call.old) : \E h \in 1..Len(call.new) :
    LET kept == { j \in 1..Len(call.new) :
                    \E i \in 1..Len(call.old) : i # g /\ call.old[i] = call.new[j] }
        added == (1..Len(call.new)) \ (kept \cup {h})
    IN /\ IsGap(call.old[g])
       /\ IsGap(call.new[h])
       /\ call.new[h].slot = call.old[g].slot + k
       /\ extractArraySize(call.new[h].canonicalType)
            = extractArraySize(call.old[g].canonicalType) - k
       /\ \A i \in 1..Len(call.old) :
            i # g => \E j \in 1..Len(call.new) : call.new[j] = call.old[i]
       /\ Cardinality(added) = k
       /\ \A j \in added :
            /\ ~IsGap(call.new[j])
            /\ call.new[j].slot \in call.old[g].slot..(call.old[g].slot + k - 1)
       /\ \A i, j \in added : i # j => call.new[i].slot # call.new[j].slot

\* C26: when k new variables are added in front of a storage gap, taking its
\* first k slots, and the gap's declared size shrinks by exactly k, every
\* other entry keeping its slot, analyzeStorageLayout emits neither STOR-007
\* nor STOR-008.
C26_GapConsumedInFront ==
  (pc = "storage_done" /\ DistinctSlotOffsets(call.old) /\ DistinctSlotOffsets(call.new)
     /\ \E k \in 1..MaxSlot : ConsumedInFront(k)) =>
    \A f \in 1..Len(ret.findings) : ret.findings[f].code \notin {"STOR-007", "STOR-008"}

\* the places of analyze in the order of its text
StepOrder ==
  << "main", "probe", "dp_impl", "dp_admin", "dp_beacon", "dp_implcode",
     "dp_proxycode", "dp_ret", "resolve", "fan_storage", "fan_abi", "fan_pattern",
     "fan_init", "fan_acl", "finish", "returned" >>

StepRank(place) == CHOOSE i \in 1..Len(StepOrder) : StepOrder[i] = place

\* proxy detection completed with a blocking code
BlockingFound ==
  /\ detected.result.status = "completed"
  /\ \E i \in 1..Len(detected.result.findings) :
       detected.result.findings[i].code \in {"PROXY-001", "PROXY-002", "PROXY-003",
                                             "PROXY-005"}

\* C27: within one analyze invocation the steps come in the order probe,
\* proxy detection, resolution, fan-out, aggregation with report and return:
\* a step never goes back; what the chain reads returned does not change
\* once proxy detection has ended; resolution and the fan-out are only
\* entered with the probe passed and no blocking code found; and a result is
\* returned either from the end of a fan-out in which all five analyzers
\* have settled or from a blocking proxy detection, never in between.
C27_StepOrder ==
  /\ [][/\ (pc \in Range(StepOrder) /\ pc' \in Range(StepOrder) /\ pc' # pc)
             => StepRank(pc') > StepRank(pc)
        /\ (pc \in Range(StepOrder) /\ StepRank(pc) >= StepRank("resolve"))
             => frame' = frame
        /\ (pc' = "resolve" /\ pc # "resolve")
             => (pc = "dp_ret" /\ ~BlockingFound)
        /\ (pc' = "returned" /\ pc # "returned")
             => \/ pc = "finish" /\ Len(settled) = 5
                \/ pc = "dp_ret" /\ BlockingFound /\ settled = <<>>
        /\ (result' # result) => (pc' = "returned" /\ result'.present)]_vars
  /\ [](pc \in {"resolve", "fan_storage", "fan_abi", "fan_pattern", "fan_init",
                "fan_acl", "finish"}
          => (caught = NoError /\ ~BlockingFound /\ ~result.present))
  /\ []((pc = "returned" /\ settled # <<>>) =>
          /\ Len(settled) = 5
          /\ Len(result.analyzerStatus) = 7)

\* a run that went through every step: the result of a fan-out of five
\* settled analyzers, returned after the chain was read and the probe passed
C27_Witness ==
  /\ pc = "returned"
  /\ result.present
  /\ Len(settled) = 5
  /\ frame = EmptyFrame
  /\ ~BlockingFound

(***************************************************************************)
(* engine.ts:78-107 with the five promises settling in any order:          *)
(* Promise.allSettled fills one place per promise, by its index in the     *)
(* array, and resolves when no place is pending.                           *)
(***************************************************************************)
Pending == [status |-> "pending", value |-> Errored("pending"), reason |-> ""]

\* the proxies a run gets to the fan-out with
FanProxyInfos ==
  { TypedReturn("uups", 1, 2, 0).proxyInfo,
    TypedReturn("transparent", 1, 2, 3).proxyInfo }

\* the third element of the array
PatternOutcomes(proxyInfo) ==
  IF proxyInfo.type = "uups" THEN UupsOutcomes
  ELSE { Returns(analyzeTransparentSafety(proxyInfo, abi)) : abi \in NewAbis }

InitFan ==
  /\ run = 0
  /\ \E proxyInfo \in FanProxyInfos :
       \E s \in StorageOutcomes \ {Throws} : \E a \in AbiOutcomes :
         \E p \in PatternOutcomes(proxyInfo) : \E i \in InitOutcomes :
           \E c \in AclOutcomes :
             InitDirect("fan_built",
                        [proxyInfo |-> proxyInfo, promises |-> << s, a, p, i, c >>,
                         outOfOrder |-> FALSE])

\* Promise.allSettled is called on the array
AwaitAll ==
  /\ pc = "fan_built"
  /\ settled' = [k \in 1..5 |-> Pending]
  /\ pc' = "fan_pending"
  /\ UNCHANGED << argv, frame, detected, analyzerResults, resolved, result, caught,
                  exitCode, run, memo, prev, aggIn, aggOut, call, ret >>

\* one of the pending promises settles
Settle ==
  /\ pc = "fan_pending"
  /\ \E k \in 1..5 :
       /\ settled[k] = Pending
       /\ settled' = [settled EXCEPT ![k] = PromiseOf(call.promises[k])]
       /\ call' = [call EXCEPT !.outOfOrder =
                     @ \/ \E j \in 1..(k - 1) : settled[j] = Pending]
  /\ UNCHANGED << pc, argv, frame, detected, analyzerResults, resolved, result, caught,
                  exitCode, run, memo, prev, aggIn, aggOut, ret >>

\* lines 109-142 once allSettled has resolved
FanReturn ==
  /\ pc = "fan_pending"
  /\ \A k \in 1..5 : settled[k] # Pending
  /\ LET results ==
           CollectResults(<< [name |-> "proxy-detection", value |-> Completed(<<>>)] >>,
                          call.proxyInfo, settled)
     IN /\ analyzerResults' = results
        /\ \E now \in Clock : result' = FinalResult(results, call.proxyInfo, now)
  /\ pc' = "fan_returned"
  /\ UNCHANGED << argv, frame, detected, resolved, settled, caught, exitCode, run, memo,
                  prev, aggIn, aggOut, call, ret >>

NextFan == AwaitAll \/ Settle \/ FanReturn

SpecFan == InitFan /\ [][NextFan]_vars

\* the AnalyzerResult the k-th analyzer of the array ended with
FanResult(k) ==
  IF call.promises[k].throws THEN Errored("thrown") ELSE call.promises[k].value

\* C28: whatever the order in which the five fan-out analyzers settle, the
\* EngineResult is the one their outcomes determine: the statuses are those
\* of storage-layout, abi-diff, the proxy-pattern analyzer under the key of
\* the detected kind (the other kind skipped), initializer-integrity and
\* access-control-regression, each under its own key and once; the findings
\* are theirs in that order; the verdict and the highest severity follow
\* from these alone.
C28_OrderIndependent ==
  pc = "fan_returned" =>
    LET own == IF call.proxyInfo.type = "uups" THEN "uups-safety" ELSE "transparent-safety"
        other == IF call.proxyInfo.type = "uups" THEN "transparent-safety" ELSE "uups-safety"
        findings == Emitted(FanResult(1)) \o Emitted(FanResult(2)) \o Emitted(FanResult(3))
                      \o Emitted(FanResult(4)) \o Emitted(FanResult(5))
        errored == \E k \in 1..5 : FanResult(k).status = "errored"
    IN /\ result.present
       /\ Len(result.analyzerStatus) = 7
       /\ Keys(result.analyzerStatus) = SevenNames
       /\ Get(result.analyzerStatus, "proxy-detection") = "completed"
       /\ Get(result.analyzerStatus, "storage-layout") = FanResult(1).status
       /\ Get(result.analyzerStatus, "abi-diff") = FanResult(2).status
       /\ Get(result.analyzerStatus, own) = FanResult(3).status
       /\ Get(result.analyzerStatus, other) = "skipped"
       /\ Get(result.analyzerStatus, "initializer-integrity") = FanResult(4).status
       /\ Get(result.analyzerStatus, "access-control-regression") = FanResult(5).status
       /\ result.findings = findings
       /\ result.verdict = IF errored THEN "INCOMPLETE" ELSE ComputeVerdict(findings)
       /\ result.highestSeverity =
            IF errored THEN NoSeverity ELSE HighestSeverity(findings)

\* a result returned after the analyzers settled out of the order of the
\* array, with initializer-integrity errored and a finding of the
\* access-control differ
C28_Witness ==
  /\ pc = "fan_returned"
  /\ call.outOfOrder
  /\ FanResult(4).status = "errored"
  /\ Get(result.analyzerStatus, "initializer-integrity") = "errored"
  /\ \E i \in 1..Len(result.findings) : result.findings[i].code = "ACL-001"

(***************************************************************************)
(* An artifact diffed against itself: both arguments of the analyzer are   *)
(* extracted from the same forge inspect output.                           *)
(***************************************************************************)
InitSelf ==
  \/ \E raw \in RawLayouts(NewVariants) :
       InitDirect("storage_extract",
                  [rawOld |-> raw, rawNew |-> raw, old |-> <<>>, new |-> <<>>])
  \/ \E raw \in RawAbis(OldItems \cup NewItems) :
       InitDirect("abi_extract",
                  [rawOld |-> raw, rawNew |-> raw,
                   old |-> extractAbi(<<>>), new |-> extractAbi(<<>>)])

NextSelf == NextStorage \/ NextAbi

SpecSelf == InitSelf /\ [][NextSelf]_vars

\* no two functions of the extracted ABI have the same selector
DistinctSelectors(abi) ==
  \A i, j \in 1..Len(abi.functions) :
    i < j => abi.functions[i].selector # abi.functions[j].selector

\* C29: an artifact diffed against itself has no findings:
\* analyzeStorageLayout(L, L) is completed with no finding for every storage
\* layout L (entries at distinct (slot, offset)), with gap entries or
\* without, and analyzeAbiDiff(A, A) is completed with no finding for every
\* ABI A without duplicate selectors.
C29_SelfDiffEmpty ==
  /\ (pc = "storage_done" /\ DistinctSlotOffsets(call.old)) => ret = Completed(<<>>)
  /\ (pc = "abi_done" /\ DistinctSelectors(call.old)) => ret = Completed(<<>>)

\* a layout of a gap and a variable, diffed against itself, with no finding
C29_Witness ==
  /\ pc = "storage_done"
  /\ call.old = call.new
  /\ DistinctSlotOffsets(call.old)
  /\ \E i \in 1..Len(call.old) : IsGap(call.old[i])
  /\ \E i \in 1..Len(call.old) : ~IsGap(call.old[i])
  /\ ret = Completed(<<>>)

\* C30: in every returned EngineResult the header of reports.markdown is
\* the header of the verdict field of that EngineResult, on the normal path
\* and on the path halted by proxy detection.
C30_HeaderIsVerdict ==
  (pc = "returned" /\ result.present) =>
    result.markdown.header = VERDICT_HEADER[result.verdict]

====
